---- MODULE Spec2Model ----
(***************************************************************************)
(* StockPulse forecasting core: AdvancedStockPredictor (fallback           *)
(* forecaster, multi-horizon predictor, train / save / load) and the       *)
(* analysis request flow of the web application.                           *)
(*                                                                         *)
(* Number representation (exact, no floating point):                       *)
(*   prices, targets, std      integer cents                               *)
(*   daily returns, momentum_5, momentum_20 columns   integer percent      *)
(*   change                    integer hundredths of a percent             *)
(*   the fallback momentum     a fraction [num, den] (den > 0)             *)
(* NaN, Inf and Python's None are sentinel integers outside every domain.  *)
(***************************************************************************)
EXTENDS Integers, Sequences, FiniteSets, TLC

NaN == 999999
Inf == 999998
None == 999997

IsNum(x) == x \notin {NaN, Inf, None}

\* program constants
SequenceLength == 60
MCSamples == 50
MinRequired == 50
MinCleanRows == 50
MinSequences == 10
MinAnalysisRows == 100
MinFeatureRows == 30

\* cache.py line 9
TTL == 300

\* bounds of the model
MaxRet == 11
MaxStd == 1500
MaxRuns == 1
MaxTime == 300
MaxThreadRuns == 2
MaxRetrains == 2

Horizons == {"intraday", "weekly", "monthly", "longterm"}

(***************************************************************************)
(* Arithmetic helpers.                                                     *)
(***************************************************************************)
Abs(x) == IF x < 0 THEN -x ELSE x

\* Python int(): truncation toward zero of the quotient a / b (b # 0)
TruncDiv(a, b) ==
    LET q == Abs(a) \div Abs(b)
    IN  IF (a < 0) = (b < 0) THEN q ELSE -q

\* Python round(x, 2) of the exact quotient a / b (b # 0), in units of the
\* second decimal: round half to even
RoundDiv(a, b) ==
    LET n == IF b < 0 THEN -a ELSE a
        d == Abs(b)
        q == n \div d
        r == n % d
    IN  IF 2 * r < d THEN q
        ELSE IF 2 * r > d THEN q + 1
        ELSE IF q % 2 = 0 THEN q ELSE q + 1

RECURSIVE SumSeq(_)
SumSeq(s) == IF s = <<>> THEN 0 ELSE Head(s) + SumSeq(Tail(s))

\* the entries of s that are numbers (pandas mean() skips NaN)
RECURSIVE Valid(_)
Valid(s) ==
    IF s = <<>> THEN <<>>
    ELSE IF IsNum(Head(s)) THEN <<Head(s)>> \o Valid(Tail(s))
    ELSE Valid(Tail(s))

(***************************************************************************)
(* A feature table (pandas DataFrame) as the predictor sees it:            *)
(*   columns  the column names present                                     *)
(*   nrows    len(df)                                                      *)
(*   rets     the last five entries of df['Close'].pct_change(), percent   *)
(*            (the Close column is represented by its daily returns)       *)
(*   windowNaN  a NaN cell in the last sequence_length rows of the         *)
(*            selected feature columns                                     *)
(*   m5, m20  last value of the momentum_5 / momentum_20 column, percent   *)
(***************************************************************************)

\* df['Close'].pct_change().tail(5).mean(): a fraction, or NaN when no
\* return is a number
RecentTrend(df) ==
    LET v == Valid(df.rets)
    IN  IF v = <<>> THEN [nan |-> TRUE, num |-> 0, den |-> 1]
        ELSE [nan |-> FALSE, num |-> SumSeq(v), den |-> 100 * Len(v)]

\* lines 126-134: the momentum scalar; np marks a numpy float (the trend)
\* as opposed to the Python literal 0.0
\* the same with the clamp read as inclusive: abs(recent_trend) <= 0.1
FallbackMomentum_Inclusive(df) ==
    IF "Close" \in df.columns /\ df.nrows > 5
    THEN LET t == RecentTrend(df)
         IN  IF ~t.nan /\ 10 * Abs(t.num) <= t.den
             THEN [num |-> t.num, den |-> t.den, np |-> TRUE]
             ELSE [num |-> 0, den |-> 1, np |-> FALSE]
    ELSE [num |-> 0, den |-> 1, np |-> FALSE]

FallbackMomentum(df) ==
    IF "Close" \in df.columns /\ df.nrows > 5
    THEN LET t == RecentTrend(df)
         IN  IF ~t.nan /\ 10 * Abs(t.num) < t.den
             THEN [num |-> t.num, den |-> t.den, np |-> TRUE]
             ELSE [num |-> 0, den |-> 1, np |-> FALSE]
    ELSE [num |-> 0, den |-> 1, np |-> FALSE]

\* one horizon of a response
Forecast(target, change, confidence, src) ==
    [target |-> target, change |-> change, confidence |-> confidence, src |-> src]

Raise(exc) == [kind |-> "raise", exc |-> exc]
Return(h) == [kind |-> "ok", h |-> h]

\* the fallback multipliers 0.5, 2.5, 10, 25 as halves, and the confidences
\* (FallbackHalves_Trained: the trained path's 5, 20, 6 copied in)
FallbackHalves_Trained == <<1, 10, 40, 12>>
FallbackHalves == <<1, 5, 20, 50>>
FallbackConfidence == <<65, 60, 55, 50>>

\* lines 139-176: one fallback horizon, current_price a number
\*   pred = current_price * (1 + momentum * k),  k = halves / 2
\*   change = ((pred - current_price) / current_price) * 100
FallbackHorizon(m, cp, i) ==
    LET k == FallbackHalves[i]
        target == RoundDiv(cp * (2 * m.den + m.num * k), 2 * m.den)
        change == IF cp = 0 THEN NaN
                  ELSE RoundDiv(m.num * k * 10000, 2 * m.den)
    IN  Forecast(target, change, FallbackConfidence[i], "fallback")

\* the same without the guard on the Close column: df['Close'] raises
_fallback_predictions_NoGuard(df, cp) ==
    LET m == FallbackMomentum(df)
    IN  IF "Close" \notin df.columns THEN Raise("KeyError")
        ELSE IF cp = None THEN Raise("TypeError")
        ELSE IF cp = 0 /\ ~m.np THEN Raise("ZeroDivisionError")
        ELSE Return([intraday |-> FallbackHorizon(m, cp, 1),
                     weekly |-> FallbackHorizon(m, cp, 2),
                     monthly |-> FallbackHorizon(m, cp, 3),
                     longterm |-> FallbackHorizon(m, cp, 4)])

\* lines 122-178
\*   None * float raises TypeError; with current_price 0.0 the division is a
\*   Python float division (ZeroDivisionError) unless the prediction is a
\*   numpy float, for which numpy returns nan with a warning
_fallback_predictions(df, cp) ==
    LET m == FallbackMomentum(df)
    IN  IF cp = None THEN Raise("TypeError")
        ELSE IF cp = 0 /\ ~m.np THEN Raise("ZeroDivisionError")
        ELSE Return([intraday |-> FallbackHorizon(m, cp, 1),
                     weekly |-> FallbackHorizon(m, cp, 2),
                     monthly |-> FallbackHorizon(m, cp, 3),
                     longterm |-> FallbackHorizon(m, cp, 4)])

(***************************************************************************)
(* predict_multi_horizon.  self is the predictor [sequence_length, model,  *)
(* scaler, feature_names]; env is what the model and the scaler do during  *)
(* the call:                                                               *)
(*   scalerNaN  scaler.transform returns a matrix with a NaN               *)
(*   base       "ok" / "nan" / "raise": the base pass (model.predict and   *)
(*              inverse_transform)                                         *)
(*   pred       the inverse-transformed base price when base = "ok"        *)
(*   passes     the 50 perturbed passes, each "ok" / "nan" / "raise"       *)
(*   std        np.std of two or more valid Monte Carlo prices (NaN when   *)
(*              a price is infinite)                                       *)
(***************************************************************************)
\* self.model is None.  A model is: arch, the run whose build_model made it;
\* weights, the run whose model.fit last set them; init, the weights that fit
\* started from (0: those of a newly built model); n, its number of features
NoModel == [arch |-> 0, weights |-> 0, init |-> 0, n |-> 0]

\* RobustScaler() before fit
NoScaler == [fitted |-> FALSE, cols |-> <<>>, run |-> 0]

\* AdvancedStockPredictor(sequence_length), lines 18-25
NewPredictor(L) ==
    [sequence_length |-> L, model |-> NoModel, scaler |-> NoScaler,
     feature_names |-> <<>>]

Range(s) == {s[i] : i \in 1..Len(s)}

\* scaler.transform raises: not fitted, or fitted on another number of columns
TransformRaises(self, feature_cols) ==
    \/ ~self.scaler.fitted
    \/ Len(self.scaler.cols) # Len(feature_cols)

\* lines 306-319 without the test of line 318: every price is appended
MonteCarlo_KeepNaN(passes) ==
    LET raising == {i \in 1..MCSamples : passes[i] = "raise"}
        made == IF raising = {} THEN MCSamples
                ELSE CHOOSE i \in raising : \A j \in raising : i <= j
    IN  [raised |-> raising # {},
         made |-> made,
         valid |-> made]

\* lines 306-319: the Monte Carlo loop over range(50); it stops at the first
\* pass that raises and appends only the non-NaN prices of the passes made
MonteCarlo(passes) ==
    LET raising == {i \in 1..MCSamples : passes[i] = "raise"}
        made == IF raising = {} THEN MCSamples
                ELSE CHOOSE i \in raising : \A j \in raising : i <= j
    IN  [raised |-> raising # {},
         made |-> made,
         valid |-> Cardinality({i \in 1..made : passes[i] = "ok"})]

\* np.std(mc_analyses) of a non-empty list
NpStd(nValid, std) ==
    IF std = NaN THEN NaN ELSE IF nValid = 1 THEN 0 ELSE std

\* line 330 with round() in place of int()
RawConfidence_Round(std, cp) ==
    LET c == RoundDiv(100 * (cp - std), cp)
        lo == IF c < 95 THEN c ELSE 95
    IN  IF lo > 60 THEN lo ELSE 60

\* line 330 without the min(95, ...)
RawConfidence_NoCap(std, cp) ==
    LET c == TruncDiv(100 * (cp - std), cp)
    IN  IF c > 60 THEN c ELSE 60

\* line 330 with the relative dispersion itself, the "1 -" dropped
RawConfidence_Dispersion(std, cp) ==
    LET c == TruncDiv(100 * std, cp)
        lo == IF c < 95 THEN c ELSE 95
    IN  IF lo > 60 THEN lo ELSE 60

\* line 330, current_price a non-zero number, std a number
RawConfidence(std, cp) ==
    LET c == TruncDiv(100 * (cp - std), cp)
        lo == IF c < 95 THEN c ELSE 95
    IN  IF lo > 60 THEN lo ELSE 60

Max(a, b) == IF a > b THEN a ELSE b

\* change of a target computed as current_price * (1 + pct * k / 100)
MomentumTarget(cp, pct, k) == RoundDiv(cp * (100 + pct * k), 100)
MomentumChange(cp, pct, k) == IF cp = 0 THEN NaN ELSE pct * k * 100

\* lines 291-300 and 333-340: the base price and the intraday horizon.
\*   how = "model": the inverse-transformed model output (numpy float)
\*   how = "trend": current_price * (1 + recent_trend)   (numpy float)
\*   how = "flat":  current_price itself                 (Python float)
IntradayTarget(how, env, t, cp) ==
    CASE how = "model" -> env.pred
      [] how = "trend" -> RoundDiv(cp * (t.den + t.num), t.den)
      [] how = "flat"  -> cp

IntradayChange(how, env, t, cp) ==
    CASE how = "model" -> IF cp = 0 THEN (IF env.pred = 0 THEN NaN ELSE Inf)
                          ELSE RoundDiv((env.pred - cp) * 10000, cp)
      [] how = "trend" -> IF cp = 0 THEN NaN ELSE RoundDiv(t.num * 10000, t.den)
      [] how = "flat"  -> 0

\* lines 339, 350, 360, 371: the confidence of each horizon for the raw
\* confidence c
\* (HorizonConfidence_NoFloor: the decrements without the floors)
HorizonConfidence_NoFloor(c) ==
    [intraday |-> c, weekly |-> c - 5, monthly |-> c - 10, longterm |-> c - 20]

HorizonConfidence(c) ==
    [intraday |-> c, weekly |-> Max(65, c - 5), monthly |-> Max(60, c - 10),
     longterm |-> Max(55, c - 20)]

\* line 343: the last momentum_5 value, 0 without the column
RecentMomentum(df) == IF "momentum_5" \in df.columns THEN df.m5 ELSE 0

\* line 364: the last momentum_20 value, recent_momentum without the column
\* (LongMomentum_ZeroDefault: 0 without the column, as for momentum_5)
LongMomentum_ZeroDefault(df) ==
    IF "momentum_20" \in df.columns THEN df.m20 ELSE 0

LongMomentum(df) ==
    IF "momentum_20" \in df.columns THEN df.m20 ELSE RecentMomentum(df)

\* lines 302-374, after the base pass: Monte Carlo confidence and the four
\* horizons
TrainedHorizons(df, cp, env, how) ==
    LET t == RecentTrend(df)
        mc == MonteCarlo(env.passes)
        std == NpStd(mc.valid, env.std)
        has5 == "momentum_5" \in df.columns
        recent == RecentMomentum(df)
        long == LongMomentum(df)
        raw == IF mc.valid = 0 THEN 70
               ELSE IF std = NaN \/ cp = 0 THEN 70
               ELSE RawConfidence(std, cp)
        confidence == HorizonConfidence(raw)
    IN  IF how = "trend" /\ cp = None THEN Raise("TypeError")
        ELSE IF mc.raised THEN Raise("ModelError")
        ELSE IF cp = None THEN Raise("TypeError")
        ELSE IF cp = 0 /\ (how = "flat" \/ ~has5) THEN Raise("ZeroDivisionError")
        ELSE Return(
            [intraday |-> Forecast(IntradayTarget(how, env, t, cp),
                                   IntradayChange(how, env, t, cp),
                                   confidence.intraday, "trained"),
             weekly |-> Forecast(MomentumTarget(cp, recent, 5),
                                 MomentumChange(cp, recent, 5),
                                 confidence.weekly, "trained"),
             monthly |-> Forecast(MomentumTarget(cp, recent, 20),
                                  MomentumChange(cp, recent, 20),
                                  confidence.monthly, "trained"),
             longterm |-> Forecast(MomentumTarget(cp, long, 6),
                                   MomentumChange(cp, long, 6),
                                   confidence.longterm, "trained")])

\* the same with the except branch of the base pass replacing only the
\* intraday forecast by the fallback one
predict_multi_horizon_Mixed(self, df, feature_cols, cp, env) ==
    IF self.model = NoModel THEN _fallback_predictions(df, cp)
    ELSE IF feature_cols = <<>> \/ ~(Range(feature_cols) \subseteq df.columns)
         THEN Raise("KeyError")
    ELSE IF df.windowNaN THEN _fallback_predictions(df, cp)
    ELSE IF TransformRaises(self, feature_cols) THEN _fallback_predictions(df, cp)
    ELSE IF env.scalerNaN THEN Raise("ValueError")
    ELSE IF df.nrows < self.sequence_length THEN Raise("ValueError")
    ELSE IF env.base = "raise" \/ "Close" \notin Range(feature_cols)
         THEN LET f == _fallback_predictions(df, cp)
                  t == TrainedHorizons(df, cp, env, "flat")
              IN  IF f.kind = "ok" /\ t.kind = "ok"
                  THEN Return([t.h EXCEPT !.intraday = f.h.intraday])
                  ELSE f
    ELSE IF env.base = "nan"
         THEN TrainedHorizons(df, cp, env, IF RecentTrend(df).nan THEN "flat" ELSE "trend")
    ELSE TrainedHorizons(df, cp, env, "model")

\* lines 255-374
predict_multi_horizon(self, df, feature_cols, cp, env) ==
    IF self.model = NoModel THEN _fallback_predictions(df, cp)
    ELSE IF feature_cols = <<>> \/ ~(Range(feature_cols) \subseteq df.columns)
         THEN Raise("KeyError")
    ELSE IF df.windowNaN THEN _fallback_predictions(df, cp)
    ELSE IF TransformRaises(self, feature_cols) THEN _fallback_predictions(df, cp)
    ELSE IF env.scalerNaN THEN Raise("ValueError")
    ELSE IF df.nrows < self.sequence_length THEN Raise("ValueError")
    ELSE IF env.base = "raise" \/ "Close" \notin Range(feature_cols)
         THEN _fallback_predictions(df, cp)
    ELSE IF env.base = "nan"
         THEN TrainedHorizons(df, cp, env, IF RecentTrend(df).nan THEN "flat" ELSE "trend")
    ELSE TrainedHorizons(df, cp, env, "model")

(***************************************************************************)
(* train.  A table also carries what the training data is like:            *)
(*   dead        a selected column has no finite value at all, so that     *)
(*               dropna removes every row                                  *)
(*   degenerate  the fitted scaler maps the table to a non-finite value    *)
(*   constClose  the close price never changes                             *)
(* run is the identity of this training run.  The result is the predictor  *)
(* after the call and whether the call raised.                             *)
(***************************************************************************)
CleanRows(df) == IF df.dead THEN 0 ELSE df.nrows

\* line 112: range(self.sequence_length, len(scaled_data))
NumSequences(self, n) ==
    IF n > self.sequence_length THEN n - self.sequence_length ELSE 0

\* scaled_data[a:b], 0 <= a <= b <= len(scaled_data); a scaled row is named
\* by its index in the cleaned table
Slice(a, b) == [j \in 0 .. (b - a - 1) |-> a + j]

\* lines 110-114 with the window taken one row later, scaled_data[i-L+1:i+1]
sequences_TargetInside(L, n) ==
    [p \in 0 .. (n - L - 1) |->
        LET i == L + p
        IN  [X |-> Slice(i - L + 1, i + 1), y |-> i]]

\* lines 110-114: the loop over i in range(sequence_length, len(scaled_data))
\* appends scaled_data[i-L:i] to X and the Close of scaled_data[i] to y; the
\* example at position p of the lists is the one of i = L + p
sequences(L, n) ==
    [p \in 0 .. (n - L - 1) |->
        LET i == L + p
        IN  [X |-> Slice(i - L, i), y |-> i]]

\* lines 75-114: the examples built in a call of prepare_data, none when the
\* call raises before the loop (lines 82, 99, 108) or in its first round
\* (line 114, no Close among the feature columns)
examples(self, df, feature_cols) ==
    IF \/ ~(Range(feature_cols) \subseteq df.columns)
       \/ CleanRows(df) < MinCleanRows
       \/ df.degenerate
       \/ "Close" \notin Range(feature_cols)
    THEN sequences(1, 0)
    ELSE sequences(self.sequence_length, CleanRows(df))

\* lines 75-120 without the check of line 117
prepare_data_NoMinimum(self, df, feature_cols, run) ==
    LET fit == [self EXCEPT !.scaler = [fitted |-> TRUE, cols |-> feature_cols, run |-> run]]
    IN  IF ~(Range(feature_cols) \subseteq df.columns)
        THEN [self |-> self, exc |-> "KeyError"]
        ELSE IF CleanRows(df) < MinCleanRows
        THEN [self |-> self, exc |-> "ValueError"]
        ELSE IF df.degenerate
        THEN [self |-> fit, exc |-> "ValueError"]
        ELSE IF NumSequences(self, CleanRows(df)) > 0 /\ "Close" \notin Range(feature_cols)
        THEN [self |-> fit, exc |-> "ValueError"]
        ELSE [self |-> fit, exc |-> ""]

\* lines 75-120; the scaler is refitted at line 104, before the later checks
\* (train repeats the check of line 117 at lines 195-199)
prepare_data(self, df, feature_cols, run) ==
    LET fit == [self EXCEPT !.scaler = [fitted |-> TRUE, cols |-> feature_cols, run |-> run]]
    IN  IF ~(Range(feature_cols) \subseteq df.columns)
        THEN [self |-> self, exc |-> "KeyError"]
        ELSE IF CleanRows(df) < MinCleanRows
        THEN [self |-> self, exc |-> "ValueError"]
        ELSE IF df.degenerate
        THEN [self |-> fit, exc |-> "ValueError"]
        ELSE IF NumSequences(self, CleanRows(df)) > 0 /\ "Close" \notin Range(feature_cols)
        THEN [self |-> fit, exc |-> "ValueError"]
        ELSE IF NumSequences(self, CleanRows(df)) < MinSequences
        THEN [self |-> fit, exc |-> "ValueError"]
        ELSE [self |-> fit, exc |-> ""]

\* lines 194-253 without the constant-target check of lines 205-206
fit_NoConstantCheck(self, df, feature_cols, run) ==
    LET built == IF self.model = NoModel
                 THEN [arch |-> run, weights |-> 0, init |-> 0, n |-> Len(feature_cols)]
                 ELSE self.model
    IN  IF built.n # Len(feature_cols)
        THEN [self |-> [self EXCEPT !.model = built], exc |-> "ValueError"]
        ELSE [self |-> [self EXCEPT !.model =
                            [built EXCEPT !.weights = run, !.init = built.weights]],
              exc |-> ""]

\* lines 194-253, after prepare_data: build_model only when self.model is
\* None, model.fit raises on a model built for another number of features
\* and otherwise goes on from the weights the model has
fit(self, df, feature_cols, run) ==
    LET built == IF self.model = NoModel
                 THEN [arch |-> run, weights |-> 0, init |-> 0, n |-> Len(feature_cols)]
                 ELSE self.model
    IN  IF df.constClose THEN [self |-> self, exc |-> "ValueError"]
        ELSE IF built.n # Len(feature_cols)
        THEN [self |-> [self EXCEPT !.model = built], exc |-> "ValueError"]
        ELSE [self |-> [self EXCEPT !.model =
                            [built EXCEPT !.weights = run, !.init = built.weights]],
              exc |-> ""]

\* lines 180-253
train(self, df, feature_cols, run) ==
    LET named == [self EXCEPT !.feature_names = feature_cols]
        p == prepare_data(named, df, feature_cols, run)
    IN  IF p.exc # "" THEN p ELSE fit(p.self, df, feature_cols, run)

(***************************************************************************)
(* save_model / load_model.  The model directory maps a symbol to its      *)
(* three files; NoFile is a file that does not exist.                      *)
(***************************************************************************)
NoFile == [exists |-> FALSE]
File(x) == [exists |-> TRUE, data |-> x]
NoArtifact == [model |-> NoFile, scaler |-> NoFile, features |-> NoFile]

\* lines 376-386; self.model.save raises on None before anything is written
save_model(self, dir, symbol) ==
    IF self.model = NoModel THEN [dir |-> dir, exc |-> "AttributeError"]
    ELSE [dir |-> [dir EXCEPT ![symbol] = [model |-> File(self.model),
                                           scaler |-> File(self.scaler),
                                           features |-> File(self.feature_names)]],
          exc |-> ""]

\* lines 388-401; the fields are assigned one after the other, joblib.load
\* raises on a missing file
\* (load_model_KeepNames: line 397 left out)
load_model_KeepNames(self, dir, symbol) ==
    LET a == dir[symbol]
        m == [self EXCEPT !.model = a.model.data]
        ms == [m EXCEPT !.scaler = a.scaler.data]
    IN  IF ~a.model.exists THEN [self |-> self, loaded |-> FALSE, exc |-> ""]
        ELSE IF ~a.scaler.exists
        THEN [self |-> m, loaded |-> FALSE, exc |-> "FileNotFoundError"]
        ELSE IF ~a.features.exists
        THEN [self |-> ms, loaded |-> FALSE, exc |-> "FileNotFoundError"]
        ELSE [self |-> ms, loaded |-> TRUE, exc |-> ""]

load_model(self, dir, symbol) ==
    LET a == dir[symbol]
        m == [self EXCEPT !.model = a.model.data]
        ms == [m EXCEPT !.scaler = a.scaler.data]
    IN  IF ~a.model.exists THEN [self |-> self, loaded |-> FALSE, exc |-> ""]
        ELSE IF ~a.scaler.exists
        THEN [self |-> m, loaded |-> FALSE, exc |-> "FileNotFoundError"]
        ELSE IF ~a.features.exists
        THEN [self |-> ms, loaded |-> FALSE, exc |-> "FileNotFoundError"]
        ELSE [self |-> [ms EXCEPT !.feature_names = a.features.data],
              loaded |-> TRUE, exc |-> ""]

(***************************************************************************)
(* The analysis request flow of the web application.                       *)
(***************************************************************************)
\* feature_engineer.py select_features()
SelectFeatures ==
    <<"Close", "Volume", "returns", "SMA_20", "SMA_50", "EMA_12", "EMA_26",
      "MACD", "MACD_signal", "RSI", "ATR", "BB_position", "BB_width",
      "Stoch_K", "Williams_R", "Volume_ratio", "OBV", "MFI", "ADX", "CCI",
      "volatility_20", "momentum_10", "close_mean_20", "close_std_20",
      "return_mean_10", "return_std_10", "high_low_ratio", "price_position">>

\* the columns of a table that went through create_features
AllColumns == Range(SelectFeatures) \cup {"momentum_5", "momentum_20"}

NoResult == [none |-> TRUE]

\* app.py lines 290-357, the body of get_cached_analysis, stage by stage.
\* data is what the price fetcher returned (fetched, rawRows, the table df
\* after feature engineering and dropna, close = its last Close); env adds
\* ioRaises, a failure of generate_signals or of the yfinance lookup.  The
\* result is None on every failure: each exception is caught and logged.
\* ran tells that train was called.
Failed(self, dir, trace, ran) ==
    [self |-> self, dir |-> dir, result |-> NoResult, trace |-> trace, ran |-> ran]

\* lines 323-353, p the outcome of predict_multi_horizon
Respond(self, dir, symbol, exchange, data, env, p, ran) ==
    IF p.kind = "raise" THEN Failed(self, dir, "predict", ran)
    ELSE IF env.ioRaises THEN Failed(self, dir, "io", ran)
    ELSE [self |-> self, dir |-> dir,
          result |-> [none |-> FALSE, symbol |-> symbol, exchange |-> exchange,
                      currentPrice |-> data.close, predictions |-> p.h,
                      features_used |-> Len(self.feature_names)],
          trace |-> IF ran THEN "trained" ELSE "loaded", ran |-> ran]

\* lines 323-324
Predict(self, dir, symbol, exchange, data, env, ran) ==
    Respond(self, dir, symbol, exchange, data, env,
            predict_multi_horizon(self, data.df, self.feature_names, data.close, env),
            ran)

\* line 318, s the outcome of save_model
Saved(self, s, dir, symbol, exchange, data, env) ==
    IF s.exc # "" THEN Failed(self, dir, "save", TRUE)
    ELSE Predict(self, s.dir, symbol, exchange, data, env, TRUE)

\* lines 316-321 without line 318: the trained model is used and not saved
Trained_NoSave(t, dir, symbol, exchange, data, env) ==
    IF t.exc # "" THEN Failed(t.self, dir, "train", TRUE)
    ELSE Predict(t.self, dir, symbol, exchange, data, env, TRUE)

\* lines 316-321, t the outcome of train
Trained(t, dir, symbol, exchange, data, env) ==
    IF t.exc # "" THEN Failed(t.self, dir, "train", TRUE)
    ELSE Saved(t.self, save_model(t.self, dir, symbol), dir, symbol, exchange, data, env)

\* lines 310-314, l the outcome of load_model
Loaded(l, dir, symbol, exchange, data, env, run) ==
    IF l.exc # "" THEN Failed(l.self, dir, "load", FALSE)
    ELSE IF l.loaded THEN Predict(l.self, dir, symbol, exchange, data, env, FALSE)
    ELSE Trained(train(l.self, data.df,
                       SelectSeq(SelectFeatures, LAMBDA f : f \in data.df.columns), run),
                 dir, symbol, exchange, data, env)

analysis_body(self, dir, symbol, exchange, data, env, run) ==
    IF ~data.fetched THEN Failed(self, dir, "nodata", FALSE)
    ELSE IF data.rawRows < MinRequired THEN Failed(self, dir, "features", FALSE)
    ELSE IF data.df.nrows < MinAnalysisRows THEN Failed(self, dir, "short", FALSE)
    ELSE Loaded(load_model(self, dir, symbol), dir, symbol, exchange, data, env, run)

\* cache.py: SimpleCache with its two dictionaries
NoEntry == [present |-> FALSE]
Entry(x) == [present |-> TRUE, v |-> x]

\* lines 11-18
cache_get(c, key, t) ==
    IF c.cache[key].present
    THEN IF t - c.timestamps[key].v < TTL
         THEN [c |-> c, value |-> c.cache[key].v]
         ELSE [c |-> [cache |-> [c.cache EXCEPT ![key] = NoEntry],
                      timestamps |-> [c.timestamps EXCEPT ![key] = NoEntry]],
               value |-> NoResult]
    ELSE [c |-> c, value |-> NoResult]

\* lines 20-22
cache_set(c, key, value, t) ==
    [cache |-> [c.cache EXCEPT ![key] = Entry(value)],
     timestamps |-> [c.timestamps EXCEPT ![key] = Entry(t)]]

\* lines 41-48, g the outcome of cache.get, b the outcome of the function
Store(g, b, key, t) ==
    [self |-> b.self, dir |-> b.dir,
     c |-> IF b.result.none THEN g.c ELSE cache_set(g.c, key, b.result, t),
     result |-> b.result, trace |-> b.trace, ran |-> b.ran]

\* lines 35-42
Lookup(g, self, dir, t, symbol, exchange, data, env, run) ==
    IF ~g.value.none
    THEN [self |-> self, dir |-> dir, c |-> g.c, result |-> g.value,
          trace |-> "hit", ran |-> FALSE]
    ELSE Store(g, analysis_body(self, dir, symbol, exchange, data, env, run),
               <<symbol, exchange>>, t)

\* lines 27-51: the wrapper of @cached; the key is built from the function
\* name and str(args), here the (symbol, exchange) pair
get_cached_analysis(self, dir, c, t, symbol, exchange, data, env, run) ==
    Lookup(cache_get(c, <<symbol, exchange>>, t), self, dir, t, symbol, exchange,
           data, env, run)

\* line 33: f"{func.__name__}:{str(args)}:{str(kwargs)}" for the positional
\* arguments (symbol, exchange), piece by piece; repr of a string puts it
\* between quotes
Repr(x) == <<"'", x, "'">>
cache_key(name, args) ==
    <<name, ":", "(">> \o Repr(args[1]) \o <<", ">> \o Repr(args[2])
        \o <<")", ":", "{}">>

\* lines 31-49 with the None result stored like any other
cached_StoreNone(ttl, c, t, key, result) ==
    LET g == cache_get(c, key, t)
    IN  IF ~g.value.none
        THEN [c |-> g.c, value |-> g.value, executed |-> FALSE]
        ELSE [c |-> cache_set(g.c, key, result, t),
              value |-> result, executed |-> TRUE]

\* lines 27-51: the wrapper that cached(ttl) puts around a function, called
\* at time t with the arguments of key; result is what the function returns
\* when it is executed.  The wrapper makes no use of ttl: the lifetime is
\* self.ttl of the global SimpleCache (line 9)
cached(ttl, c, t, key, result) ==
    LET g == cache_get(c, key, t)
    IN  IF ~g.value.none
        THEN [c |-> g.c, value |-> g.value, executed |-> FALSE]
        ELSE [c |-> IF result.none THEN g.c ELSE cache_set(g.c, key, result, t),
              value |-> result, executed |-> TRUE]

(***************************************************************************)
(* The training scripts.  Each makes a predictor of its own for every      *)
(* symbol and writes into the same model directory as the web application. *)
(***************************************************************************)
ScriptMinRaw == 500
ScriptMinRows == 200

ScriptFailed(self, dir, ran) ==
    [self |-> self, dir |-> dir, ok |-> FALSE, ran |-> ran]

\* auto_update.py lines 131-136 and pretrain_models.py lines 131-136, t the
\* outcome of train: save_model follows train, an exception skips it
ScriptSave(t, dir, symbol) ==
    IF t.exc # "" THEN ScriptFailed(t.self, dir, TRUE)
    ELSE [self |-> t.self, dir |-> save_model(t.self, dir, symbol).dir,
          ok |-> TRUE, ran |-> TRUE]

\* auto_update.py lines 108-136, pretrain_models.py lines 99-136: the row
\* checks, feature selection, train and save
ScriptTrain(self, dir, symbol, data, run) ==
    IF ~data.fetched \/ data.rawRows < ScriptMinRaw THEN ScriptFailed(self, dir, FALSE)
    ELSE IF data.df.nrows < ScriptMinRows THEN ScriptFailed(self, dir, FALSE)
    ELSE ScriptSave(train(self, data.df,
                          SelectSeq(SelectFeatures, LAMBDA f : f \in data.df.columns),
                          run),
                    dir, symbol)

\* auto_update.py lines 103-141: AutoUpdater.update_model
update_model(dir, symbol, data, run) ==
    ScriptTrain(NewPredictor(SequenceLength), dir, symbol, data, run)

\* pretrain_models.py lines 84-142: train_stock_model, l the outcome of
\* load_model on the new predictor; an existing model is kept
Pretrain(l, dir, symbol, data, run) ==
    IF l.exc # "" THEN ScriptFailed(l.self, dir, FALSE)
    ELSE IF l.loaded THEN [self |-> l.self, dir |-> dir, ok |-> TRUE, ran |-> FALSE]
    ELSE ScriptTrain(l.self, dir, symbol, data, run)

train_stock_model(dir, symbol, data, run) ==
    Pretrain(load_model(NewPredictor(SequenceLength), dir, symbol), dir, symbol,
             data, run)

(***************************************************************************)
(* State.                                                                  *)
(*   predictor  the AdvancedStockPredictor (the web application has one)   *)
(*   dir        the model directory                                        *)
(*   runs       number of training runs started                            *)
(*   cache      the global SimpleCache                                     *)
(*   now        time.time()                                                *)
(*   call       the operation in progress: its arguments and its outcome,  *)
(*              until the caller has taken the outcome                     *)
(*   threads    the requests in progress in the worker threads of the      *)
(*              server, each with its position and its local variables     *)
(*   trainedOn  history: the instrument whose price series each training   *)
(*              run was given                                              *)
(*   service    the StockPredictor of services/ai_predictor.py             *)
(*   decorator_ttl  the ttl argument that the cached function was          *)
(*              decorated with, @cached(ttl=...)                           *)
(***************************************************************************)
VARIABLES predictor, dir, runs, cache, now, call, threads, trainedOn, service,
          decorator_ttl

vars == <<predictor, dir, runs, cache, now, call, threads, trainedOn, service,
          decorator_ttl>>

Symbols == {"TCS", "INFY"}
Exchanges == {"NSE", "BSE"}
Keys == Symbols \X Exchanges

NoCall == [op |-> "none"]

\* run_production.py line 19 serves with 8 threads; two are modelled
Threads == {1, 2}
IdleThread == [pc |-> "idle"]

\* ai_predictor.py lines 21-23: MinMaxScaler before fit
NoServiceScaler == [fitted |-> FALSE, run |-> 0, at |-> "init"]
NewService == [model |-> NoModel, scaler |-> NoServiceScaler]

\* lines 18-25 of advanced_lstm.py, cache.py lines 6-9
Constructed ==
    /\ predictor = NewPredictor(SequenceLength)
    /\ threads = [t \in Threads |-> IdleThread]
    /\ trainedOn = <<>>
    /\ service = NewService
    /\ dir = [s \in Symbols |-> NoArtifact]
    /\ runs = 0
    /\ cache = [cache |-> [k \in Keys |-> NoEntry], timestamps |-> [k \in Keys |-> NoEntry]]
    /\ now = 0
    /\ call = NoCall

\* app.py line 289: @cached(ttl=300)
Init ==
    /\ Constructed
    /\ decorator_ttl = TTL

(***************************************************************************)
(* Inputs.                                                                 *)
(***************************************************************************)
RetVals == {-MaxRet, -10, -3, 0, 1, 10, MaxRet}
RetSeqs ==
    {<<a, a, a, a, b>> : a \in {10, -10, NaN}, b \in RetVals \cup {NaN}}
    \cup {<<a, a, a, a, a>> : a \in RetVals}
NoReturns == <<NaN, NaN, NaN, NaN, NaN>>

PriceVals == {None, -1000, 0, 1000, 1001}
StdVals == {0, 1, 49, 50, 51, 55, 71, 75, 100, 395, 399, 400, 401, 1001, MaxStd, NaN}

BaseTable ==
    [columns |-> AllColumns, nrows |-> 120, rets |-> <<1, 1, 1, 1, 1>>,
     windowNaN |-> FALSE, m5 |-> 2, m20 |-> -3,
     dead |-> FALSE, degenerate |-> FALSE, constClose |-> FALSE]

Passes(raiseAt, nNaN) ==
    [i \in 1..MCSamples |->
        IF i = raiseAt THEN "raise" ELSE IF i <= nNaN THEN "nan" ELSE "ok"]

BaseEnv ==
    [scalerNaN |-> FALSE, base |-> "ok", pred |-> 1050, passes |-> Passes(0, 0),
     std |-> 5, ioRaises |-> FALSE]

\* tables for the fallback forecaster: few rows, no Close column, any returns
FallbackTables ==
    {[BaseTable EXCEPT !.columns = c, !.nrows = n, !.rets = r] :
        c \in {AllColumns, AllColumns \ {"Close"}},
        n \in {1, 5, 6},
        r \in RetSeqs}

\* tables for the steps of the trained path: missing columns, a short
\* table, a NaN in the window
ColumnSets ==
    {AllColumns, AllColumns \ {"momentum_5"}, AllColumns \ {"momentum_20"},
     AllColumns \ {"momentum_5", "momentum_20"}, AllColumns \ {"Volume"}}

StepTables ==
    {[BaseTable EXCEPT !.columns = c, !.nrows = n, !.windowNaN = w] :
        c \in ColumnSets, n \in {SequenceLength - 1, SequenceLength}, w \in BOOLEAN}

\* what the scaler and the model do in the steps of the trained path
StepEnvs ==
    {[BaseEnv EXCEPT !.scalerNaN = sn, !.base = b, !.passes = ps] :
        sn \in BOOLEAN, b \in {"ok", "nan", "raise"},
        ps \in {Passes(0, 0), Passes(1, 0), Passes(MCSamples, 0), Passes(0, MCSamples)}}

\* Monte Carlo outcomes for the confidence
SampleEnvs ==
    {[BaseEnv EXCEPT !.base = b, !.passes = ps, !.std = sd] :
        b \in {"ok", "nan"},
        ps \in {Passes(0, 0), Passes(0, MCSamples - 1), Passes(0, MCSamples)},
        sd \in StdVals}

FeatureLists == {SelectFeatures, <<"Volume", "returns">>, <<>>}

PredictInputs ==
    {[df |-> d, cols |-> SelectFeatures, cp |-> c, env |-> BaseEnv] :
        d \in FallbackTables, c \in PriceVals}
    \cup
    {[df |-> d, cols |-> f, cp |-> c, env |-> BaseEnv] :
        d \in StepTables, f \in FeatureLists, c \in {None, 0, 1000}}
    \cup
    {[df |-> [BaseTable EXCEPT !.columns = cs], cols |-> SelectFeatures, cp |-> c, env |-> e] :
        cs \in ColumnSets, c \in {None, 0, 1000}, e \in StepEnvs}
    \cup
    {[df |-> [BaseTable EXCEPT !.rets = r], cols |-> SelectFeatures, cp |-> c, env |-> e] :
        r \in {<<1, 1, 1, 1, 1>>, NoReturns}, c \in PriceVals, e \in SampleEnvs}

TrainTables ==
    {[BaseTable EXCEPT !.columns = c, !.nrows = n, !.dead = dd,
                       !.degenerate = dg, !.constClose = cc] :
        c \in {AllColumns, AllColumns \ {"Volume"}},
        n \in {MinCleanRows - 1, MinCleanRows, SequenceLength + MinSequences - 1,
               SequenceLength + MinSequences, 120},
        dd \in BOOLEAN, dg \in BOOLEAN, cc \in BOOLEAN}

(***************************************************************************)
(* Operations of the predictor, called directly.                           *)
(***************************************************************************)
Idle == call.op = "none"

PredictCall ==
    /\ Idle
    /\ \E in \in PredictInputs :
        call' = [op |-> "predict", df |-> in.df, cols |-> in.cols, cp |-> in.cp,
                 env |-> in.env,
                 out |-> predict_multi_horizon(predictor, in.df, in.cols, in.cp, in.env)]
    /\ UNCHANGED <<predictor, dir, runs, cache, now, threads, trainedOn, service, decorator_ttl>>

FallbackCall ==
    /\ Idle
    /\ \E d \in FallbackTables, c \in PriceVals :
        call' = [op |-> "fallback", df |-> d, cp |-> c,
                 out |-> _fallback_predictions(d, c)]
    /\ UNCHANGED <<predictor, dir, runs, cache, now, threads, trainedOn, service, decorator_ttl>>

\* two calls on inputs that differ only in the dispersion of the Monte
\* Carlo prices
PairInputs ==
    {[df |-> BaseTable, cols |-> SelectFeatures, cp |-> c,
      env |-> [BaseEnv EXCEPT !.std = sd]] :
        c \in {1000, 1001}, sd \in StdVals \ {NaN}}

PredictPair ==
    /\ Idle
    /\ \E in \in PairInputs, sd \in StdVals \ {NaN} :
        call' = [op |-> "pair", df |-> in.df, cols |-> in.cols, cp |-> in.cp,
                 env |-> in.env, std2 |-> sd,
                 out |-> predict_multi_horizon(predictor, in.df, in.cols, in.cp, in.env),
                 out2 |-> predict_multi_horizon(predictor, in.df, in.cols, in.cp,
                                                [in.env EXCEPT !.std = sd])]
    /\ UNCHANGED <<predictor, dir, runs, cache, now, threads, trainedOn, service, decorator_ttl>>

TrainCall ==
    /\ Idle
    /\ runs < MaxRuns
    /\ \E d \in TrainTables, f \in {SelectFeatures, <<"Close", "Volume">>} :
        LET t == train(predictor, d, f, runs + 1)
        IN  /\ predictor' = t.self
            /\ call' = [op |-> "train", df |-> d, cols |-> f, exc |-> t.exc]
    /\ runs' = runs + 1
    /\ trainedOn' = Append(trainedOn, <<>>)
    /\ UNCHANGED <<dir, cache, now, threads, service, decorator_ttl>>

SaveCall ==
    /\ Idle
    /\ \E s \in Symbols :
        LET r == save_model(predictor, dir, s)
        IN  /\ dir' = r.dir
            /\ call' = [op |-> "save", symbol |-> s, exc |-> r.exc]
    /\ UNCHANGED <<predictor, runs, cache, now, threads, trainedOn, service, decorator_ttl>>

LoadCall ==
    /\ Idle
    /\ \E s \in Symbols :
        LET r == load_model(predictor, dir, s)
        IN  /\ predictor' = r.self
            /\ call' = [op |-> "load", symbol |-> s, loaded |-> r.loaded, exc |-> r.exc]
    /\ UNCHANGED <<dir, runs, cache, now, threads, trainedOn, service, decorator_ttl>>

\* the caller takes the outcome
Consume ==
    /\ ~Idle
    /\ call' = NoCall
    /\ UNCHANGED <<predictor, dir, runs, cache, now, threads, trainedOn, service, decorator_ttl>>

Next ==
    \/ PredictCall
    \/ PredictPair
    \/ FallbackCall
    \/ TrainCall
    \/ SaveCall
    \/ LoadCall
    \/ Consume

Spec == Init /\ [][Next]_vars

(***************************************************************************)
(* The analysis request: GET /api/analyze/<symbol> and POST /api/analyze   *)
(* (app.py lines 359-422), both around get_cached_analysis.                *)
(***************************************************************************)
BaseData == [fetched |-> TRUE, rawRows |-> 300, df |-> BaseTable, close |-> 1000]

FlowData ==
    {BaseData,
     [BaseData EXCEPT !.fetched = FALSE],
     [BaseData EXCEPT !.rawRows = MinRequired - 1],
     [BaseData EXCEPT !.df.nrows = MinAnalysisRows - 1],
     [BaseData EXCEPT !.df.constClose = TRUE],
     [BaseData EXCEPT !.df.degenerate = TRUE],
     [BaseData EXCEPT !.df.columns = AllColumns \ {"Volume"}]}

FlowEnvs ==
    {BaseEnv,
     [BaseEnv EXCEPT !.base = "raise"],
     [BaseEnv EXCEPT !.passes = Passes(1, 0)],
     [BaseEnv EXCEPT !.ioRaises = TRUE]}

\* the requests made: two symbols, and one symbol on two exchanges
FlowKeys == {<<"TCS", "NSE">>, <<"TCS", "BSE">>, <<"INFY", "NSE">>}

Times == {TTL - 1, MaxTime}

\* a truthy result is logged and returned with status 200, None gives the
\* 500 'Analysis failed' response
Analyze ==
    /\ Idle
    /\ \E k \in FlowKeys, d \in FlowData, e \in FlowEnvs :
        \E r \in {get_cached_analysis(predictor, dir, cache, now, k[1], k[2], d, e,
                                      runs + 1)} :
            /\ r.ran => runs < MaxRuns
            /\ predictor' = r.self
            /\ dir' = r.dir
            /\ cache' = r.c
            /\ runs' = IF r.ran THEN runs + 1 ELSE runs
            /\ trainedOn' = IF r.ran THEN Append(trainedOn, k) ELSE trainedOn
            /\ call' = [op |-> "analyze", symbol |-> k[1], exchange |-> k[2], data |-> d,
                        env |-> e, trace |-> r.trace,
                        status |-> IF r.result.none THEN 500 ELSE 200,
                        body |-> r.result]
    /\ UNCHANGED <<now, threads, service, decorator_ttl>>

\* time passes
Tick ==
    /\ Idle
    /\ \E t \in Times : t > now /\ now' = t
    /\ UNCHANGED <<predictor, dir, runs, cache, call, threads, trainedOn, service, decorator_ttl>>

\* what the price fetcher gives a script for the five-year period
ScriptBase ==
    [fetched |-> TRUE, rawRows |-> 1200, df |-> [BaseTable EXCEPT !.nrows = 1000],
     close |-> 1000]

ScriptData ==
    {ScriptBase,
     [ScriptBase EXCEPT !.rawRows = ScriptMinRaw - 1],
     [ScriptBase EXCEPT !.df.nrows = ScriptMinRows - 1],
     [ScriptBase EXCEPT !.df.constClose = TRUE]}

\* the symbols the scripts are run for: one that the web application is
\* asked for as well
ScriptSymbols == {"INFY"}

\* auto_update.py: one symbol of the weekly update
UpdateModel ==
    /\ Idle
    /\ \E sy \in ScriptSymbols, d \in ScriptData :
        \E r \in {update_model(dir, sy, d, runs + 1)} :
            /\ r.ran => runs < MaxRuns
            /\ dir' = r.dir
            /\ runs' = IF r.ran THEN runs + 1 ELSE runs
            /\ trainedOn' = IF r.ran THEN Append(trainedOn, <<sy, "NSE">>) ELSE trainedOn
            /\ call' = [op |-> "update_model", symbol |-> sy, data |-> d,
                        ok |-> r.ok, ran |-> r.ran, after |-> r.self]
    /\ UNCHANGED <<predictor, cache, now, threads, service, decorator_ttl>>

\* pretrain_models.py: one symbol of the pretraining
PretrainModel ==
    /\ Idle
    /\ \E sy \in ScriptSymbols, d \in ScriptData :
        \E r \in {train_stock_model(dir, sy, d, runs + 1)} :
            /\ r.ran => runs < MaxRuns
            /\ dir' = r.dir
            /\ runs' = IF r.ran THEN runs + 1 ELSE runs
            /\ trainedOn' = IF r.ran THEN Append(trainedOn, <<sy, "NSE">>) ELSE trainedOn
            /\ call' = [op |-> "train_stock_model", symbol |-> sy, data |-> d,
                        ok |-> r.ok, ran |-> r.ran, after |-> r.self]
    /\ UNCHANGED <<predictor, cache, now, threads, service, decorator_ttl>>

FlowNext ==
    \/ Analyze
    \/ UpdateModel
    \/ PretrainModel
    \/ Tick
    \/ Consume

FlowSpec == Init /\ [][FlowNext]_vars

(***************************************************************************)
(* The same request in the worker threads of the server: the steps of      *)
(* get_cached_analysis interleave, on the one predictor of the             *)
(* application (app.py line 227), the one cache and the model directory.   *)
(* A thread holds: pc, the request (symbol, exchange, data), run (its      *)
(* training run), cols (its local feature_cols), own (the model, scaler    *)
(* and feature list it loaded or trained), used (those predict ran with),  *)
(* out (the predictions), status and trace when done.                      *)
(***************************************************************************)
\* a file that is being written
Partial(x) == [exists |-> TRUE, data |-> x, partial |-> TRUE]
IsPartial(f) == "partial" \in DOMAIN f

Nothing == [model |-> NoModel, scaler |-> NoScaler, features |-> <<>>]

ThreadKeys == {<<"TCS", "NSE">>, <<"INFY", "NSE">>}
ThreadData == {BaseData}

ActiveThread(k, d) ==
    [pc |-> "exists", symbol |-> k[1], exchange |-> k[2], data |-> d, run |-> 0,
     cols |-> <<>>, own |-> Nothing, used |-> Nothing, out |-> Raise(""),
     status |-> 0, trace |-> ""]

Done(th, status, trace) ==
    [th EXCEPT !.pc = "done", !.status = status, !.trace = trace]

At(t, pc) == threads[t].pc = pc

\* cache.py lines 35-42 and app.py lines 293-308
Begin(t) ==
    /\ At(t, "idle")
    /\ \E k \in ThreadKeys, d \in ThreadData :
        LET g == cache_get(cache, k, now)
            th == ActiveThread(k, d)
        IN  /\ cache' = g.c
            /\ threads' = [threads EXCEPT ![t] =
                    IF ~g.value.none THEN Done(th, 200, "hit")
                    ELSE IF ~d.fetched THEN Done(th, 500, "nodata")
                    ELSE IF d.rawRows < MinRequired THEN Done(th, 500, "features")
                    ELSE IF d.df.nrows < MinAnalysisRows THEN Done(th, 500, "short")
                    ELSE th]
    /\ UNCHANGED <<predictor, dir, runs, now, call, trainedOn, service, decorator_ttl>>

\* advanced_lstm.py line 394, app.py lines 312-314
Exists(t) ==
    LET th == threads[t]
    IN  /\ At(t, "exists")
        /\ IF dir[th.symbol].model.exists
           THEN /\ threads' = [threads EXCEPT ![t].pc = "load_model"]
                /\ UNCHANGED <<runs, trainedOn>>
           ELSE /\ runs < MaxThreadRuns
                /\ runs' = runs + 1
                /\ trainedOn' = Append(trainedOn, <<th.symbol, th.exchange>>)
                /\ threads' = [threads EXCEPT ![t] =
                        [th EXCEPT !.pc = "train", !.run = runs + 1,
                                   !.cols = SelectSeq(SelectFeatures,
                                                LAMBDA f : f \in th.data.df.columns)]]
        /\ UNCHANGED <<predictor, dir, cache, now, call, service, decorator_ttl>>

\* line 395; load_model raises on a file that is not complete
LoadModelFile(t) ==
    LET th == threads[t]
        f == dir[th.symbol].model
    IN  /\ At(t, "load_model")
        /\ IF IsPartial(f)
           THEN /\ threads' = [threads EXCEPT ![t] = Done(th, 500, "load")]
                /\ UNCHANGED predictor
           ELSE /\ predictor' = [predictor EXCEPT !.model = f.data]
                /\ threads' = [threads EXCEPT ![t] =
                        [th EXCEPT !.pc = "load_scaler", !.own.model = f.data]]
        /\ UNCHANGED <<dir, runs, cache, now, call, trainedOn, service, decorator_ttl>>

\* line 396
LoadScalerFile(t) ==
    LET th == threads[t]
        f == dir[th.symbol].scaler
    IN  /\ At(t, "load_scaler")
        /\ IF ~f.exists
           THEN /\ threads' = [threads EXCEPT ![t] = Done(th, 500, "load")]
                /\ UNCHANGED predictor
           ELSE /\ predictor' = [predictor EXCEPT !.scaler = f.data]
                /\ threads' = [threads EXCEPT ![t] =
                        [th EXCEPT !.pc = "load_features", !.own.scaler = f.data]]
        /\ UNCHANGED <<dir, runs, cache, now, call, trainedOn, service, decorator_ttl>>

\* lines 397-399
LoadFeaturesFile(t) ==
    LET th == threads[t]
        f == dir[th.symbol].features
    IN  /\ At(t, "load_features")
        /\ IF ~f.exists
           THEN /\ threads' = [threads EXCEPT ![t] = Done(th, 500, "load")]
                /\ UNCHANGED predictor
           ELSE /\ predictor' = [predictor EXCEPT !.feature_names = f.data]
                /\ threads' = [threads EXCEPT ![t] =
                        [th EXCEPT !.pc = "names", !.own.features = f.data,
                                   !.trace = "loaded"]]
        /\ UNCHANGED <<dir, runs, cache, now, call, trainedOn, service, decorator_ttl>>

\* line 184
TrainNames(t) ==
    LET th == threads[t]
    IN  /\ At(t, "train")
        /\ predictor' = [predictor EXCEPT !.feature_names = th.cols]
        /\ threads' = [threads EXCEPT ![t] =
                [th EXCEPT !.pc = "prepare", !.own.features = th.cols]]
        /\ UNCHANGED <<dir, runs, cache, now, call, trainedOn, service, decorator_ttl>>

\* line 187
TrainPrepare(t) ==
    LET th == threads[t]
        p == prepare_data(predictor, th.data.df, th.cols, th.run)
    IN  /\ At(t, "prepare")
        /\ predictor' = p.self
        /\ threads' = [threads EXCEPT ![t] =
                IF p.exc # "" THEN Done(th, 500, "train")
                ELSE [th EXCEPT !.pc = "fit", !.own.scaler = p.self.scaler]]
        /\ UNCHANGED <<dir, runs, cache, now, call, trainedOn, service, decorator_ttl>>

\* lines 194-253
TrainFit(t) ==
    LET th == threads[t]
        f == fit(predictor, th.data.df, th.cols, th.run)
    IN  /\ At(t, "fit")
        /\ predictor' = f.self
        /\ threads' = [threads EXCEPT ![t] =
                IF f.exc # "" THEN Done(th, 500, "train")
                ELSE [th EXCEPT !.pc = "save_model", !.own.model = f.self.model,
                                !.trace = "trained"]]
        /\ UNCHANGED <<dir, runs, cache, now, call, trainedOn, service, decorator_ttl>>

\* line 382, the write of the model file begins
SaveModelBegin(t) ==
    LET th == threads[t]
    IN  /\ At(t, "save_model")
        /\ IF predictor.model = NoModel
           THEN /\ threads' = [threads EXCEPT ![t] = Done(th, 500, "train")]
                /\ UNCHANGED dir
           ELSE /\ dir' = [dir EXCEPT ![th.symbol].model = Partial(predictor.model)]
                /\ threads' = [threads EXCEPT ![t].pc = "save_model_end"]
        /\ UNCHANGED <<predictor, runs, cache, now, call, trainedOn, service, decorator_ttl>>

\* line 382, the write of the model file ends
SaveModelEnd(t) ==
    LET th == threads[t]
    IN  /\ At(t, "save_model_end")
        /\ dir' = [dir EXCEPT ![th.symbol].model = File(dir[th.symbol].model.data)]
        /\ threads' = [threads EXCEPT ![t].pc = "save_scaler"]
        /\ UNCHANGED <<predictor, runs, cache, now, call, trainedOn, service, decorator_ttl>>

\* line 383
SaveScaler(t) ==
    LET th == threads[t]
    IN  /\ At(t, "save_scaler")
        /\ dir' = [dir EXCEPT ![th.symbol].scaler = File(predictor.scaler)]
        /\ threads' = [threads EXCEPT ![t].pc = "save_features"]
        /\ UNCHANGED <<predictor, runs, cache, now, call, trainedOn, service, decorator_ttl>>

\* line 384
SaveFeatures(t) ==
    LET th == threads[t]
    IN  /\ At(t, "save_features")
        /\ dir' = [dir EXCEPT ![th.symbol].features = File(predictor.feature_names)]
        /\ threads' = [threads EXCEPT ![t].pc = "names"]
        /\ UNCHANGED <<predictor, runs, cache, now, call, trainedOn, service, decorator_ttl>>

\* app.py line 323
ReadNames(t) ==
    LET th == threads[t]
    IN  /\ At(t, "names")
        /\ threads' = [threads EXCEPT ![t] =
                [th EXCEPT !.pc = "predict", !.cols = predictor.feature_names]]
        /\ UNCHANGED <<predictor, dir, runs, cache, now, call, trainedOn, service, decorator_ttl>>

\* app.py line 324
PredictStep(t) ==
    LET th == threads[t]
        p == predict_multi_horizon(predictor, th.data.df, th.cols, th.data.close, BaseEnv)
        ran == [th EXCEPT !.used = [model |-> predictor.model,
                                    scaler |-> predictor.scaler,
                                    features |-> th.cols],
                          !.out = p]
    IN  /\ At(t, "predict")
        /\ threads' = [threads EXCEPT ![t] =
                IF p.kind = "raise" THEN Done(ran, 500, "predict")
                ELSE [ran EXCEPT !.pc = "respond"]]
        /\ UNCHANGED <<predictor, dir, runs, cache, now, call, trainedOn, service, decorator_ttl>>

\* app.py lines 325-353 and cache.py lines 46-48
Finish(t) ==
    LET th == threads[t]
        result == [none |-> FALSE, symbol |-> th.symbol, exchange |-> th.exchange,
                   currentPrice |-> th.data.close, predictions |-> th.out.h,
                   features_used |-> Len(th.cols)]
    IN  /\ At(t, "respond")
        /\ cache' = cache_set(cache, <<th.symbol, th.exchange>>, result, now)
        /\ threads' = [threads EXCEPT ![t] = Done(th, 200, th.trace)]
        /\ UNCHANGED <<predictor, dir, runs, now, call, trainedOn, service, decorator_ttl>>

\* the response is sent, the thread takes the next request
Reply(t) ==
    /\ At(t, "done")
    /\ threads' = [threads EXCEPT ![t] = IdleThread]
    /\ UNCHANGED <<predictor, dir, runs, cache, now, call, trainedOn, service, decorator_ttl>>

ThreadNext ==
    \E t \in Threads :
        \/ Begin(t)
        \/ Exists(t)
        \/ LoadModelFile(t)
        \/ LoadScalerFile(t)
        \/ LoadFeaturesFile(t)
        \/ TrainNames(t)
        \/ TrainPrepare(t)
        \/ TrainFit(t)
        \/ SaveModelBegin(t)
        \/ SaveModelEnd(t)
        \/ SaveScaler(t)
        \/ SaveFeatures(t)
        \/ ReadNames(t)
        \/ PredictStep(t)
        \/ Finish(t)
        \/ Reply(t)

ThreadSpec == Init /\ [][ThreadNext]_vars

(***************************************************************************)
(* StockPredictor (services/ai_predictor.py): the second inference path.   *)
(* It keeps a model and a MinMaxScaler, and writes only the model file,    *)
(* in the same directory and under the same name as the advanced           *)
(* predictor.  env is what the market data and the random draws are:       *)
(*   histRows, histClean    rows of the 2y history, and after the          *)
(*                          indicators and dropna                          *)
(*   recentRows, recentClean  the same for the 3mo history                 *)
(*   cp, pred    last close and the inverse-transformed model output,      *)
(*               cents                                                     *)
(*   adj         the np.random.uniform adjustment, per mille               *)
(*   dir         the random direction of the forced change, 1 or -1        *)
(*   vol         the standard deviation of the daily returns, tenths of a  *)
(*               percent                                                   *)
(*   lastClose   the 1d history has a row (the fallback of predict)        *)
(*   walk        the random-walk change of the fallback, percent           *)
(* Prices of a result are in 1/1000 of a cent, change is a fraction.       *)
(***************************************************************************)
\* lines 73-78 and 176-181
ServiceFeatures ==
    <<"Close", "Open", "High", "Low", "Volume", "SMA_5", "SMA_20", "EMA_12",
      "EMA_26", "MACD", "Signal", "RSI", "BB_Middle", "BB_Upper", "BB_Lower",
      "Volume_SMA", "Volume_Ratio", "ROC", "Momentum", "ATR">>

ServiceWindow == 60
ServiceMinHistory == 100

ServiceScaler(run, at) == [fitted |-> TRUE, run |-> run, at |-> at]

\* lines 110-145: the scaler is fitted at line 83 (an empty table raises),
\* X.shape[1] at line 135 raises without sequences, only the model is saved
train_model(self, files, symbol, env, run) ==
    LET scaled == [self EXCEPT !.scaler = ServiceScaler(run, "train")]
        model == [arch |-> run, weights |-> run, init |-> 0, n |-> Len(ServiceFeatures)]
        trained == [scaled EXCEPT !.model = model]
    IN  IF env.histRows < ServiceMinHistory
        THEN [self |-> self, dir |-> files, exc |-> "ValueError"]
        ELSE IF env.histClean = 0
        THEN [self |-> self, dir |-> files, exc |-> "ValueError"]
        ELSE IF env.histClean <= ServiceWindow
        THEN [self |-> scaled, dir |-> files, exc |-> "IndexError"]
        ELSE [self |-> trained,
              dir |-> [files EXCEPT ![symbol].model = File(model)],
              exc |-> ""]

\* lines 204-219
Timeframes == {"intraday", "weekly", "monthly"}
BaseConfidence(timeframe) ==
    CASE timeframe = "intraday" -> 75
      [] timeframe = "weekly" -> 85
      [] OTHER -> 80
Days(timeframe) ==
    CASE timeframe = "intraday" -> 1
      [] timeframe = "weekly" -> 7
      [] OTHER -> 30
Adjustments(timeframe) ==
    CASE timeframe = "intraday" -> {995, 1000, 1015}
      [] timeframe = "weekly" -> {970, 1000, 1050}
      [] OTHER -> {930, 1000, 1100}

\* lines 221-246
ServiceResult(timeframe, env) ==
    LET current == env.cp * 1000
        adjusted == env.pred * env.adj
        predicted == IF Abs(adjusted - current) < 1000
                     THEN env.cp * (1000 + env.dir * 10)
                     ELSE adjusted
        c10 == BaseConfidence(timeframe) * 10 - 2 * env.vol
        clamped == IF c10 > 950 THEN 950 ELSE IF c10 < 600 THEN 600 ELSE c10
    IN  [predicted_price |-> predicted, current_price |-> current,
         change_pct |-> [num |-> (predicted - current) * 100, den |-> current],
         confidence |-> clamped \div 10, timeframe |-> timeframe,
         days |-> Days(timeframe)]

\* lines 253-271: the random-walk estimate of the except branch
ServiceFallback(timeframe, env) ==
    [predicted_price |-> env.cp * (1000 + env.walk * 10),
     current_price |-> env.cp * 1000,
     change_pct |-> [num |-> env.walk, den |-> 1],
     confidence |-> 60, timeframe |-> timeframe, days |-> 1]

\* lines 248-271: the except branch, self and files as the try block left
\* them
ServiceExcept(self, files, timeframe, env, ran) ==
    [self |-> self, dir |-> files, ran |-> ran,
     path |-> IF env.lastClose THEN "fallback" ELSE "raise",
     out |-> IF env.lastClose THEN ServiceFallback(timeframe, env)
             ELSE ServiceFallback(timeframe, [env EXCEPT !.walk = 0])]

\* lines 160-246, self the predictor after the model was loaded or trained:
\* the scaler is fitted again, on the recent window (line 186), and the
\* model raises on a window of another shape
ServiceInfer(self, files, timeframe, env, ran) ==
    LET refit == [self EXCEPT !.scaler = ServiceScaler(0, "predict")]
    IN  IF env.recentRows < ServiceWindow
        THEN ServiceExcept(self, files, timeframe, env, ran)
        ELSE IF env.recentClean = 0
        THEN ServiceExcept(self, files, timeframe, env, ran)
        ELSE IF env.recentClean < ServiceWindow \/ self.model.n # Len(ServiceFeatures)
        THEN ServiceExcept(refit, files, timeframe, env, ran)
        ELSE [self |-> refit, dir |-> files, ran |-> ran, path |-> "model",
              out |-> ServiceResult(timeframe, env)]

\* lines 150-158, t the outcome of train_model
ServiceTrained(t, timeframe, env) ==
    IF t.exc # "" THEN ServiceExcept(t.self, t.dir, timeframe, env, TRUE)
    ELSE ServiceInfer(t.self, t.dir, timeframe, env, TRUE)

\* lines 147-271
predict(self, files, symbol, timeframe, env, run) ==
    IF ~files[symbol].model.exists
    THEN ServiceTrained(train_model(self, files, symbol, env, run), timeframe, env)
    ELSE ServiceInfer([self EXCEPT !.model = files[symbol].model.data], files,
                      timeframe, env, FALSE)

BaseMarket ==
    [histRows |-> 500, histClean |-> 475, recentRows |-> 63, recentClean |-> 60,
     cp |-> 1000, pred |-> 1020, adj |-> 1000, dir |-> 1, vol |-> 15,
     lastClose |-> TRUE, walk |-> 2]

Markets ==
    {[BaseMarket EXCEPT !.histRows = h, !.histClean = c] :
        h \in {ServiceMinHistory - 1, ServiceMinHistory}, c \in {0, ServiceWindow, 75}}
    \cup {[BaseMarket EXCEPT !.recentRows = r, !.recentClean = c, !.lastClose = l] :
        r \in {ServiceWindow - 1, 63}, c \in {0, 38, ServiceWindow}, l \in BOOLEAN}
    \cup {[BaseMarket EXCEPT !.pred = p, !.dir = d, !.vol = v, !.walk = w] :
        p \in {1000, 1020}, d \in {1, -1}, v \in {0, 15, 125}, w \in {-5, 2}}

\* predict(symbol, timeframe)
ServicePredict ==
    /\ Idle
    /\ \E sy \in Symbols, tf \in Timeframes, m \in Markets :
        \E a \in Adjustments(tf) :
            \E r \in {predict(service, dir, sy, tf, [m EXCEPT !.adj = a], runs + 1)} :
                /\ r.ran => runs < MaxRuns
                /\ service' = r.self
                /\ dir' = r.dir
                /\ runs' = IF r.ran THEN runs + 1 ELSE runs
                /\ trainedOn' = IF r.ran THEN Append(trainedOn, <<sy, "NSE">>) ELSE trainedOn
                /\ call' = [op |-> "service_predict", symbol |-> sy, timeframe |-> tf,
                            env |-> [m EXCEPT !.adj = a], path |-> r.path,
                            model |-> r.self.model, scaler |-> r.self.scaler,
                            out |-> r.out]
    /\ UNCHANGED <<predictor, cache, now, threads, decorator_ttl>>

\* train_model(symbol)
ServiceTrain ==
    /\ Idle
    /\ runs < MaxRuns
    /\ \E sy \in Symbols, m \in Markets :
        \E r \in {train_model(service, dir, sy, m, runs + 1)} :
            /\ service' = r.self
            /\ dir' = r.dir
            /\ call' = [op |-> "service_train", symbol |-> sy, env |-> m, exc |-> r.exc]
            /\ trainedOn' = Append(trainedOn, <<sy, "NSE">>)
    /\ runs' = runs + 1
    /\ UNCHANGED <<predictor, cache, now, threads, decorator_ttl>>

ServiceNext ==
    \/ ServicePredict
    \/ ServiceTrain
    \/ Consume

ServiceSpec == Init /\ [][ServiceNext]_vars

(***************************************************************************)
(* FeatureEngineer.create_features.  A price series is a sequence of       *)
(* blocks; a block stands for n consecutive rows with the same High, Low,  *)
(* Close and Volume (cents and units, NaN or Inf).  The fills and the      *)
(* row drop act on whole blocks, as every row of a block is alike.         *)
(***************************************************************************)
PriceColumns == {"High", "Low", "Close", "Volume"}

RowCount(series) == SumSeq([i \in 1..Len(series) |-> series[i].n])

\* pandas isnull(): NaN, not an infinite value
IsNull(x) == x = NaN

\* fillna(method='ffill'): a null cell takes the last non-null cell above it
FillForward(series) ==
    [i \in 1..Len(series) |->
        [f \in DOMAIN series[i] |->
            LET above == {j \in 1..(i - 1) : ~IsNull(series[j][f])}
            IN  IF f \in PriceColumns /\ IsNull(series[i][f]) /\ above # {}
                THEN series[CHOOSE j \in above : \A k \in above : k <= j][f]
                ELSE series[i][f]]]

\* fillna(method='bfill'): a null cell takes the first non-null cell below it
FillBackward(series) ==
    [i \in 1..Len(series) |->
        [f \in DOMAIN series[i] |->
            LET below == {j \in (i + 1)..Len(series) : ~IsNull(series[j][f])}
            IN  IF f \in PriceColumns /\ IsNull(series[i][f]) /\ below # {}
                THEN series[CHOOSE j \in below : \A k \in below : j <= k][f]
                ELSE series[i][f]]]

\* dropna(subset=['High', 'Low', 'Close', 'Volume'])
DropNull(series) ==
    SelectSeq(series, LAMBDA b : \A f \in PriceColumns : ~IsNull(b[f]))

HasNull(series) ==
    \E i \in 1..Len(series), f \in PriceColumns : IsNull(series[i][f])

\* feature_engineer.py lines 11-126 without the check of line 26
create_features_NoRecheck(series) ==
    IF RowCount(series) < MinRequired THEN Raise("ValueError")
    ELSE Return(IF HasNull(series)
                THEN DropNull(FillBackward(FillForward(series)))
                ELSE series)

\* feature_engineer.py lines 11-126; the result is the cleaned series, to
\* which lines 29-124 add the feature columns
create_features(series) ==
    LET cleaned == IF HasNull(series)
                   THEN DropNull(FillBackward(FillForward(series)))
                   ELSE series
    IN  IF RowCount(series) < MinRequired THEN Raise("ValueError")
        ELSE IF RowCount(cleaned) < MinFeatureRows THEN Raise("ValueError")
        ELSE Return(cleaned)

\* series of three blocks: the counts, and per block a valid value, NaN or
\* Inf in Close and in Volume
BlockCounts ==
    {<<1, MinRequired - 3, 1>>, <<1, MinRequired - 2, 1>>,
     <<MinFeatureRows - 1, 1, MinFeatureRows>>, <<10, 100, 10>>}
Patterns == [1..3 -> {"v", "nan", "inf"}]
VolumePatterns ==
    {<<"v", "v", "v">>, <<"nan", "nan", "nan">>, <<"nan", "v", "nan">>,
     <<"inf", "v", "v">>}

Cell(kind, v) == IF kind = "nan" THEN NaN ELSE IF kind = "inf" THEN Inf ELSE v

PriceSeries ==
    {[i \in 1..3 |->
        [n |-> c[i], High |-> 1100 + i, Low |-> 900 + i,
         Close |-> Cell(p[i], 1000 + i), Volume |-> Cell(v[i], 500 + i)]] :
        c \in BlockCounts, p \in Patterns, v \in VolumePatterns}

CreateFeaturesCall ==
    /\ Idle
    /\ \E ps \in PriceSeries :
        call' = [op |-> "create_features", series |-> ps, out |-> create_features(ps)]
    /\ UNCHANGED <<predictor, dir, runs, cache, now, threads, trainedOn, service, decorator_ttl>>

\* AdvancedStockPredictor(sequence_length=L).train(df, feature_cols) on a
\* new predictor
WindowLengths == {20, 45, SequenceLength}

WindowTables ==
    {[BaseTable EXCEPT !.nrows = n, !.dead = dd, !.degenerate = dg, !.constClose = cc] :
        n \in {MinCleanRows - 1, MinCleanRows, 45 + MinSequences - 1, 45 + MinSequences,
               SequenceLength + MinSequences - 1, SequenceLength + MinSequences, 120},
        dd \in BOOLEAN, dg \in BOOLEAN, cc \in BOOLEAN}

ConstructTrain ==
    /\ Idle
    /\ \E L \in WindowLengths, d \in WindowTables :
        LET t == train(NewPredictor(L), d, SelectFeatures, 1)
        IN  call' = [op |-> "construct_train", L |-> L, df |-> d,
                     exc |-> t.exc, after |-> t.self]
    /\ UNCHANGED <<predictor, dir, runs, cache, now, threads, trainedOn, service, decorator_ttl>>

\* technical_analyzer.py lines 35-74: generate_signals on the last row of the
\* table.  rsi is the RSI in thousandths, diff the MACD_diff in hundredths,
\* NaN for a missing value (every comparison with NaN is false)
RsiVal(rsi) == IF rsi = NaN THEN NaN ELSE RoundDiv(rsi, 10)

\* lines 41-50, on the RSI rounded to two decimals
RsiScore(rsi) ==
    IF RsiVal(rsi) # NaN /\ RsiVal(rsi) < 3000 THEN 2
    ELSE IF RsiVal(rsi) # NaN /\ RsiVal(rsi) > 7000 THEN -2
    ELSE 0

\* lines 52-59
MacdScore(diff) == IF diff # NaN /\ diff > 0 THEN 1 ELSE -1

\* lines 61-71
Overall(score) ==
    IF score >= 3 THEN "STRONG BUY"
    ELSE IF score >= 1 THEN "BUY"
    ELSE IF score <= -3 THEN "STRONG SELL"
    ELSE IF score <= -1 THEN "SELL"
    ELSE "HOLD"

generate_signals(rsi, diff) ==
    [score |-> RsiScore(rsi) + MacdScore(diff),
     overall |-> Overall(RsiScore(rsi) + MacdScore(diff))]

RsiValues ==
    {NaN, 0, 29994, 29996, 30000, 30004, 50000, 69996, 70000, 70004, 70006, 100000}
DiffValues == {NaN, -5, 0, 5}

SignalsCall ==
    /\ Idle
    /\ \E rsi \in RsiValues, diff \in DiffValues :
        call' = [op |-> "generate_signals", rsi |-> rsi, diff |-> diff,
                 out |-> generate_signals(rsi, diff)]
    /\ UNCHANGED <<predictor, dir, runs, cache, now, threads, trainedOn, service,
                   decorator_ttl>>

\* AdvancedStockPredictor(sequence_length=L).prepare_data(df, feature_cols)
PrepareCall ==
    /\ Idle
    /\ \E L \in WindowLengths, d \in WindowTables :
        LET p == prepare_data(NewPredictor(L), d, SelectFeatures, 1)
        IN  call' = [op |-> "prepare_data", L |-> L, df |-> d, exc |-> p.exc,
                     made |-> examples(NewPredictor(L), d, SelectFeatures)]
    /\ UNCHANGED <<predictor, dir, runs, cache, now, threads, trainedOn, service, decorator_ttl>>

DataNext ==
    \/ CreateFeaturesCall
    \/ ConstructTrain
    \/ PrepareCall
    \/ SignalsCall
    \/ Consume

DataSpec == Init /\ [][DataNext]_vars

(***************************************************************************)
(* Training again: train called on a predictor that already went through   *)
(* train or load_model, directly and by the analysis requests of the web   *)
(* application, which has one predictor for all symbols.                   *)
(***************************************************************************)
\* training data that passes or fails each check of prepare_data and train
RetrainTables ==
    {BaseTable,
     [BaseTable EXCEPT !.nrows = MinCleanRows - 1],
     [BaseTable EXCEPT !.degenerate = TRUE],
     [BaseTable EXCEPT !.nrows = SequenceLength + MinSequences - 1],
     [BaseTable EXCEPT !.constClose = TRUE]}

RetrainLists == {SelectFeatures, <<"Close", "Volume">>}

\* predictor.train(df, feature_cols); before is the predictor at the call
Retrain ==
    /\ Idle
    /\ runs < MaxRetrains
    /\ \E d \in RetrainTables, f \in RetrainLists :
        \E t \in {train(predictor, d, f, runs + 1)} :
            /\ predictor' = t.self
            /\ call' = [op |-> "retrain", df |-> d, cols |-> f, exc |-> t.exc,
                        before |-> predictor]
    /\ runs' = runs + 1
    /\ trainedOn' = Append(trainedOn, <<>>)
    /\ UNCHANGED <<dir, cache, now, threads, service, decorator_ttl>>

\* app.py lines 359-422: analysis requests for two symbols
Reanalyze ==
    /\ Idle
    /\ \E k \in ThreadKeys, d \in {BaseData, [BaseData EXCEPT !.df.constClose = TRUE]} :
        \E r \in {get_cached_analysis(predictor, dir, cache, now, k[1], k[2], d,
                                      BaseEnv, runs + 1)} :
            /\ r.ran => runs < MaxRetrains
            /\ predictor' = r.self
            /\ dir' = r.dir
            /\ cache' = r.c
            /\ runs' = IF r.ran THEN runs + 1 ELSE runs
            /\ trainedOn' = IF r.ran THEN Append(trainedOn, k) ELSE trainedOn
            /\ call' = [op |-> "reanalyze", symbol |-> k[1], exchange |-> k[2],
                        data |-> d, trace |-> r.trace,
                        status |-> IF r.result.none THEN 500 ELSE 200,
                        before |-> predictor]
    /\ UNCHANGED <<now, threads, service, decorator_ttl>>

RetrainNext ==
    \/ Retrain
    \/ Reanalyze
    \/ SaveCall
    \/ LoadCall
    \/ Consume

RetrainSpec == Init /\ [][RetrainNext]_vars

(***************************************************************************)
(* The cache decorator by itself: a function decorated with                *)
(* @cached(ttl=decorator_ttl), called at different times with different    *)
(* arguments; the function returns None or a result that tells when it     *)
(* was computed.                                                           *)
(***************************************************************************)
CacheTtls == {60, TTL}
CacheTimes == {59, 60, 61, TTL - 1, TTL, TTL + 1, 2 * TTL}
CacheKeys == FlowKeys

CacheInit ==
    /\ Constructed
    /\ decorator_ttl \in CacheTtls

CachedCall ==
    /\ Idle
    /\ \E k \in CacheKeys, fails \in BOOLEAN :
        \E r \in {cached(decorator_ttl, cache, now, k,
                          IF fails THEN NoResult
                          ELSE [none |-> FALSE, symbol |-> k[1], exchange |-> k[2],
                                at |-> now])} :
            /\ cache' = r.c
            /\ call' = [op |-> "cached", key |-> k, before |-> cache,
                        value |-> r.value, executed |-> r.executed]
    /\ UNCHANGED <<predictor, dir, runs, now, threads, trainedOn, service, decorator_ttl>>

CacheTick ==
    /\ Idle
    /\ \E t \in CacheTimes : t > now /\ now' = t
    /\ UNCHANGED <<predictor, dir, runs, cache, call, threads, trainedOn, service,
                   decorator_ttl>>

CacheNext ==
    \/ CachedCall
    \/ CacheTick
    \/ Consume

CacheSpec == CacheInit /\ [][CacheNext]_vars

(***************************************************************************)
(* Properties.                                                             *)
(***************************************************************************)
Called(op) == call.op = op

\* a present, positive, finite currentPrice
ValidPrice(cp) == IsNum(cp) /\ cp > 0

FourHorizons(out) == out.kind = "ok" /\ DOMAIN out.h = Horizons

Confidences(out) ==
    <<out.h.intraday.confidence, out.h.weekly.confidence,
      out.h.monthly.confidence, out.h.longterm.confidence>>

AllFrom(out, src) == \A k \in Horizons : out.h[k].src = src

\* the number of perturbed passes that gave a price
ValidSamples(env) == Cardinality({i \in 1..MCSamples : env.passes[i] = "ok"})

\* the call went through the trained path up to the Monte Carlo confidence
\* with at least one valid sample and a numeric dispersion
Sampled(out, env) ==
    /\ out.kind = "ok"
    /\ AllFrom(out, "trained")
    /\ ValidSamples(env) >= 1
    /\ env.std # NaN

\* np.std of the valid samples: 0 for a single sample
SampleStd(env) == IF ValidSamples(env) = 1 THEN 0 ELSE env.std

ClampConfidence(c) ==
    IF c > 95 THEN 95 ELSE IF c < 60 THEN 60 ELSE c

\* the table has more than five rows of a Close column
HasTrend(df) == "Close" \in df.columns /\ df.nrows > 5

\* the table is a series with the constant daily return r percent
ConstantReturn(df, r) == HasTrend(df) /\ df.rets = <<r, r, r, r, r>>

\* t is the quotient a / b rounded to the nearest unit
Nearest(t, a, b) == 2 * Abs(t * b - a) <= b

HorizonHalves == [intraday |-> 1, weekly |-> 5, monthly |-> 20, longterm |-> 50]

\* C1: predict_multi_horizon called with a positive finite currentPrice on a
\* table that has the selected columns returns the four horizons and never
\* raises, whatever the predictor state, the number of rows, the scaler
\* output and the model calls are.
C1_NeverRaises ==
    (Called("predict") /\ ValidPrice(call.cp)
        /\ Range(call.cols) \subseteq call.df.columns) => FourHorizons(call.out)

\* C2: an analysis request whose on-miss training run fails still answers
\* with four horizon forecasts of the fallback forecaster.
C2_TrainingFailureFallsBack ==
    (Called("analyze") /\ call.trace = "train") =>
        /\ call.status = 200
        /\ ~call.body.none
        /\ DOMAIN call.body.predictions = Horizons
        /\ \A k \in Horizons : call.body.predictions[k].src = "fallback"

\* C3: a response of predict_multi_horizon comes from one path: all four
\* horizons from the fallback forecaster, with confidences 65, 60, 55, 50,
\* or all four from the trained-model path, with the confidences of one raw
\* confidence; never a mix.
C3_OnePath ==
    (Called("predict") /\ call.out.kind = "ok") =>
        \/ /\ AllFrom(call.out, "fallback")
           /\ Confidences(call.out) = <<65, 60, 55, 50>>
        \/ /\ AllFrom(call.out, "trained")
           /\ \E c \in 60..95 :
                Confidences(call.out) =
                    <<c, Max(65, c - 5), Max(60, c - 10), Max(55, c - 20)>>

\* a trained predictor whose base pass raised answered from the fallback alone
C3_Witness ==
    /\ Called("predict")
    /\ predictor.model # NoModel
    /\ ~TransformRaises(predictor, call.cols)
    /\ ~call.df.windowNaN /\ ~call.env.scalerNaN /\ call.df.nrows >= SequenceLength
    /\ call.env.base = "raise"
    /\ call.out.kind = "ok"
    /\ AllFrom(call.out, "fallback")

\* C4 as stated: every horizon of every response carries an integer
\* confidence within [55, 95].
C4_Range55 ==
    ((Called("predict") \/ Called("fallback")) /\ call.out.kind = "ok") =>
        \A k \in Horizons : call.out.h[k].confidence \in 55..95

\* C4 amended: every horizon of every response carries an integer confidence
\* within [50, 95]; on the trained-model path it is within [55, 95].
C4_Range50 ==
    ((Called("predict") \/ Called("fallback")) /\ call.out.kind = "ok") =>
        \A k \in Horizons :
            /\ call.out.h[k].confidence \in 50..95
            /\ call.out.h[k].src = "trained" => call.out.h[k].confidence \in 55..95

\* a fallback response, whose longterm confidence is 50
C4_Witness ==
    /\ Called("predict")
    /\ call.out.kind = "ok"
    /\ call.out.h.longterm.confidence = 50

\* C5 as stated: with the model absent the confidences are 65, 60, 55, 50 and
\* each target equals currentPrice * (1 + m * k), k = 0.5, 2.5, 10, 25; for a
\* constant daily return r with |r| up to 10% m is r.
C5_ExactTargets ==
    (Called("predict") /\ predictor.model = NoModel /\ ValidPrice(call.cp)) =>
        LET m == FallbackMomentum(call.df)
        IN  /\ FourHorizons(call.out)
            /\ Confidences(call.out) = <<65, 60, 55, 50>>
            /\ \A k \in Horizons :
                call.out.h[k].target * 2 * m.den
                    = call.cp * (2 * m.den + m.num * HorizonHalves[k])
            /\ \A r \in -10..10 :
                ConstantReturn(call.df, r) =>
                    call.out.h.intraday.target * 200 = call.cp * (200 + r)

\* C5 amended: with the model absent and a positive currentPrice the
\* confidences are 65, 60, 55, 50 and each target is currentPrice * (1 + m * k)
\* rounded to 2 decimals; for a constant daily return r with |r| below 10% m
\* is r, and from |r| = 10% on m is 0.
C5_RoundedTargets ==
    (Called("predict") /\ predictor.model = NoModel /\ ValidPrice(call.cp)) =>
        LET m == FallbackMomentum(call.df)
        IN  /\ FourHorizons(call.out)
            /\ Confidences(call.out) = <<65, 60, 55, 50>>
            /\ \A k \in Horizons :
                Nearest(call.out.h[k].target,
                        call.cp * (2 * m.den + m.num * HorizonHalves[k]), 2 * m.den)
            /\ \A r \in -MaxRet..MaxRet, k \in Horizons :
                ConstantReturn(call.df, r) =>
                    IF Abs(r) < 10
                    THEN Nearest(call.out.h[k].target,
                                 call.cp * (200 + r * HorizonHalves[k]), 200)
                    ELSE call.out.h[k].target = call.cp

\* a 1% daily return at 10.01: the intraday target 10.06005 comes out as 10.06
C5_Witness ==
    /\ Called("predict")
    /\ predictor.model = NoModel
    /\ ConstantReturn(call.df, 1)
    /\ call.cp = 1001
    /\ call.out.kind = "ok"
    /\ call.out.h.intraday.target = 1006
    /\ call.out.h.longterm.target = 1251

\* the change of each horizon for the momentum num / den
MomentumShows(out, num, den) ==
    \A k \in Horizons :
        out.h[k].change = RoundDiv(num * HorizonHalves[k] * 10000, 2 * den)

\* C6 as stated: the fallback momentum is the mean of the last 5 daily
\* returns when the mean is a number within plus or minus 10%, the bounds
\* included, and 0 when it is NaN or outside.
C6_InclusiveClamp ==
    (Called("fallback") /\ ValidPrice(call.cp) /\ HasTrend(call.df)) =>
        LET t == RecentTrend(call.df)
        IN  /\ call.out.kind = "ok"
            /\ IF ~t.nan /\ 10 * Abs(t.num) <= t.den
               THEN MomentumShows(call.out, t.num, t.den)
               ELSE MomentumShows(call.out, 0, 1)

\* C6 amended: the fallback momentum is the mean of the last 5 daily returns
\* when the mean is a number strictly within plus or minus 10%, and 0 when it
\* is NaN, exactly +10% or -10%, or outside; its absolute value is below 0.10
\* (the longterm change stays below 250%).
C6_StrictClamp ==
    (Called("fallback") /\ ValidPrice(call.cp)) =>
        LET t == RecentTrend(call.df)
        IN  /\ call.out.kind = "ok"
            /\ HasTrend(call.df) =>
                IF ~t.nan /\ 10 * Abs(t.num) < t.den
                THEN MomentumShows(call.out, t.num, t.den)
                ELSE MomentumShows(call.out, 0, 1)
            /\ Abs(call.out.h.longterm.change) < 25000

\* a mean of exactly 10% is treated as neutral
C6_Witness ==
    /\ Called("fallback")
    /\ ValidPrice(call.cp)
    /\ ConstantReturn(call.df, 10)
    /\ call.out.kind = "ok"
    /\ call.out.h.longterm.change = 0

\* C7: the fallback forecaster returns four forecasts without raising for
\* every non-empty table and every positive currentPrice, whatever the model
\* and the scaler are: with 5 or fewer rows, without a Close column, with NaN
\* returns.
C7_FallbackNeverFails ==
    ((Called("fallback") \/ (Called("predict") /\ predictor.model = NoModel))
        /\ ValidPrice(call.cp) /\ call.df.nrows >= 1) =>
        /\ FourHorizons(call.out)
        /\ AllFrom(call.out, "fallback")

\* a table of five rows without a Close column
C7_Witness ==
    /\ Called("fallback")
    /\ ValidPrice(call.cp)
    /\ "Close" \notin call.df.columns
    /\ call.df.nrows = 5
    /\ FourHorizons(call.out)

\* C8: with a currentPrice that is missing, zero or negative the call fails
\* with an error, on the trained path and on the fallback path.
C8_InvalidPriceFails ==
    ((Called("predict") \/ Called("fallback"))
        /\ (call.cp = None \/ (IsNum(call.cp) /\ call.cp <= 0))) =>
        call.out.kind = "raise"

\* C9 as stated: the raw confidence is 100 * (1 - std / currentPrice) rounded
\* to the nearest integer, then clamped into [60, 95].
C9_RoundedConfidence ==
    (Called("predict") /\ ValidPrice(call.cp) /\ Sampled(call.out, call.env)) =>
        \E c \in -100..100 :
            /\ Nearest(c, 100 * (call.cp - SampleStd(call.env)), call.cp)
            /\ call.out.h.intraday.confidence = ClampConfidence(c)

\* C9 amended: the raw confidence is 100 * (1 - std / currentPrice) with its
\* fraction dropped (truncated, not rounded to the nearest integer), then
\* clamped into [60, 95].
C9_TruncatedConfidence ==
    (Called("predict") /\ ValidPrice(call.cp) /\ Sampled(call.out, call.env)) =>
        LET std == SampleStd(call.env)
            c == IF std <= call.cp
                 THEN (100 * (call.cp - std)) \div call.cp
                 ELSE -((100 * (std - call.cp)) \div call.cp)
        IN  call.out.h.intraday.confidence = ClampConfidence(c)

\* std 0.71 at 10.00: 92.9 gives 92
C9_Witness ==
    /\ Called("predict")
    /\ call.cp = 1000
    /\ Sampled(call.out, call.env)
    /\ ValidSamples(call.env) = MCSamples
    /\ call.env.std = 71
    /\ call.out.h.intraday.confidence = 92

\* both calls of a pair went through the trained path
PairSampled ==
    /\ Called("pair")
    /\ Sampled(call.out, call.env)
    /\ Sampled(call.out2, call.env)
    /\ call.env.std < call.std2

\* C10 as stated: of two inputs that differ only in the dispersion, the one
\* with the higher dispersion has the lower intraday confidence, and both
\* confidences are within [60, 95].
C10_StrictlyLower ==
    PairSampled =>
        /\ call.out2.h.intraday.confidence < call.out.h.intraday.confidence
        /\ call.out.h.intraday.confidence \in 60..95
        /\ call.out2.h.intraday.confidence \in 60..95

\* C10 amended: the one with the higher dispersion never has the higher
\* intraday confidence (the two are equal when both values truncate to the
\* same integer or are clamped to the same bound), and both confidences are
\* within [60, 95].
C10_NotHigher ==
    PairSampled =>
        /\ call.out2.h.intraday.confidence <= call.out.h.intraday.confidence
        /\ call.out.h.intraday.confidence \in 60..95
        /\ call.out2.h.intraday.confidence \in 60..95

\* a pair whose higher dispersion lowered the confidence
C10_Witness ==
    /\ PairSampled
    /\ call.out2.h.intraday.confidence < call.out.h.intraday.confidence

\* the raw confidence of lines 321-330 for the Monte Carlo outcome env
ExpectedRaw(env, cp) ==
    IF ValidSamples(env) = 0 \/ env.std = NaN THEN 70
    ELSE LET std == SampleStd(env)
         IN  ClampConfidence(IF std <= cp THEN (100 * (cp - std)) \div cp
                             ELSE -((100 * (std - cp)) \div cp))

\* the call got as far as the four horizons of the trained-model path
TrainedResponse == Called("predict") /\ call.out.kind = "ok" /\ AllFrom(call.out, "trained")

\* C11: on the trained-model path the confidences for the raw confidence c
\* are intraday c, weekly max(65, c - 5), monthly max(60, c - 10), longterm
\* max(55, c - 20): 90 gives 85, 80, 70, and a decrement that falls below the
\* floor gives the floor (58 gives weekly 65).
C11_HorizonConfidences ==
    /\ HorizonConfidence(90) = [intraday |-> 90, weekly |-> 85, monthly |-> 80, longterm |-> 70]
    /\ HorizonConfidence(58).weekly = 65
    /\ (TrainedResponse /\ ValidPrice(call.cp)) =>
            LET c == ExpectedRaw(call.env, call.cp)
            IN  /\ Confidences(call.out)
                     = <<c, Max(65, c - 5), Max(60, c - 10), Max(55, c - 20)>>
                /\ c = 90 => Confidences(call.out) = <<90, 85, 80, 70>>
                /\ c - 5 < 65 => call.out.h.weekly.confidence = 65

\* std 1.00 at 10.00: raw confidence 90
C11_Witness ==
    /\ TrainedResponse
    /\ call.cp = 1000
    /\ ValidSamples(call.env) = MCSamples
    /\ call.env.std = 100
    /\ Confidences(call.out) = <<90, 85, 80, 70>>

\* the call reaches the horizon construction of the trained-model path: a
\* model, the selected columns without NaN, a scaler that transforms, 60 rows
\* and model passes that do not raise
ReachesHorizons ==
    /\ Called("predict")
    /\ predictor.model # NoModel
    /\ call.cols # <<>> /\ Range(call.cols) \subseteq call.df.columns
    /\ "Close" \in Range(call.cols)
    /\ ~call.df.windowNaN
    /\ ~TransformRaises(predictor, call.cols)
    /\ ~call.env.scalerNaN
    /\ call.df.nrows >= SequenceLength
    /\ call.env.base # "raise"
    /\ \A i \in 1..MCSamples : call.env.passes[i] # "raise"

\* C12: on the trained-model path a missing momentum column never causes an
\* exception: without momentum_20 the longterm target is
\* currentPrice * (1 + momentum_5 * 6), without momentum_5 the weekly and
\* monthly targets are currentPrice, without both the longterm target is
\* currentPrice too (targets rounded to 2 decimals, as every monetary output).
C12_MissingMomentum ==
    (ReachesHorizons /\ ValidPrice(call.cp)) =>
        LET has5 == "momentum_5" \in call.df.columns
            has20 == "momentum_20" \in call.df.columns
        IN  /\ call.out.kind = "ok"
            /\ AllFrom(call.out, "trained")
            /\ (~has20 /\ has5) =>
                    Nearest(call.out.h.longterm.target,
                            call.cp * (100 + call.df.m5 * 6), 100)
            /\ ~has5 =>
                    /\ call.out.h.weekly.target = call.cp
                    /\ call.out.h.monthly.target = call.cp
            /\ (~has5 /\ ~has20) => call.out.h.longterm.target = call.cp

\* no momentum_20 column, momentum_5 at 2%: longterm 10.00 * 1.12
C12_Witness ==
    /\ ReachesHorizons
    /\ "momentum_20" \notin call.df.columns
    /\ "momentum_5" \in call.df.columns
    /\ call.df.m5 = 2
    /\ call.cp = 1000
    /\ call.out.kind = "ok"
    /\ call.out.h.longterm.target = 1120

\* C15: model artifacts are keyed by the (symbol, exchange) pair: what an
\* analysis for (S, E) can load from the model directory was trained on the
\* price series of (S, E), so that saving a model trained for (S, E1) never
\* makes it the artifact of (S, E2), and a request that answered from a
\* loaded model loaded one trained on its own instrument.
C15_KeyedByPair ==
    /\ \A k \in Keys :
            LET l == load_model(predictor, dir, k[1])
            IN  l.loaded => trainedOn[l.self.model.weights] = k
    /\ (Called("analyze") /\ call.trace = "loaded") =>
            trainedOn[predictor.model.weights] = <<call.symbol, call.exchange>>

\* C13: whatever the interleaving of a retrain's save_model(symbol) with a
\* load_model(symbol), the loader reports no model or obtains model weights,
\* scaler and feature list of one training run: load_model never fails on a
\* file that is missing or being written, and what it loaded belongs together.
C13_AtomicArtifact ==
    \A t \in Threads :
        ~At(t, "idle") =>
            /\ threads[t].trace # "load"
            /\ threads[t].trace = "loaded" =>
                /\ threads[t].own.scaler.fitted
                /\ threads[t].own.model.weights = threads[t].own.scaler.run
                /\ threads[t].own.features = threads[t].own.scaler.cols

\* C14: of two requests for different symbols in progress, the one that has
\* run predict_multi_horizon ran it with the model, the scaler and the
\* feature list it loaded or trained itself.
C14_OwnModel ==
    \A t, u \in Threads :
        (/\ At(t, "respond")
         /\ ~At(u, "idle")
         /\ threads[u].symbol # threads[t].symbol) =>
            threads[t].used = threads[t].own

\* C16: on every inference path the scaler that transforms the input window
\* and inverse-transforms the model output holds the statistics fitted by the
\* training run that produced the model in use; inference fits no scaler.
C16_TrainingScaler ==
    /\ TrainedResponse =>
            /\ predictor.scaler.fitted
            /\ predictor.scaler.run = predictor.model.weights
    /\ (Called("service_predict") /\ call.path = "model") =>
            /\ call.scaler.at = "train"
            /\ call.scaler.run = call.model.weights

\* the request called predict_multi_horizon
Predicted == Called("analyze") /\ call.trace \in {"loaded", "trained", "predict", "io"}

Fillable(series, i) ==
    \A f \in PriceColumns :
        IsNull(series[i][f]) => \E j \in 1..Len(series) : ~IsNull(series[j][f])

Remaining(series) ==
    SumSeq([i \in 1..Len(series) |-> IF Fillable(series, i) THEN series[i].n ELSE 0])

\* C18: create_features raises the insufficient-data error exactly when the
\* series has fewer than 50 rows or fewer than 30 rows remain after cleanup:
\* 49 rows are rejected, 50 rows without NaN go on to the feature
\* derivation, 50 rows or more of which cleanup leaves fewer than 30 are
\* rejected.
C18_InsufficientData ==
    Called("create_features") =>
        LET rows == RowCount(call.series)
        IN  /\ call.out.kind = "raise"
                <=> (rows < 50 \/ Remaining(call.series) < 30)
            /\ call.out.kind = "raise" => call.out.exc = "ValueError"
            /\ rows = 49 => call.out.kind = "raise"
            /\ (rows = 50 /\ ~HasNull(call.series)) =>
                    /\ call.out.kind = "ok"
                    /\ RowCount(call.out.h) = 50
            /\ (rows >= 50 /\ Remaining(call.series) < 30) => call.out.kind = "raise"

\* 120 rows whose Volume is missing throughout: cleanup leaves none
C18_Witness ==
    /\ Called("create_features")
    /\ RowCount(call.series) = 120
    /\ \A i \in 1..Len(call.series) : IsNull(call.series[i].Volume)
    /\ call.out.kind = "raise"

\* the value the cleanup of the claim gives cell i of column f: the cell
\* itself when it is a number, else the nearest earlier number of the
\* column, else the nearest later one, else the column mean (there is none
\* when the column has no number: the cell stays invalid)
Cleaned(series, f, i) ==
    LET above == {j \in 1..(i - 1) : IsNum(series[j][f])}
        below == {j \in (i + 1)..Len(series) : IsNum(series[j][f])}
    IN  IF IsNum(series[i][f]) THEN series[i][f]
        ELSE IF above # {} THEN series[CHOOSE j \in above : \A k \in above : k <= j][f]
        ELSE IF below # {} THEN series[CHOOSE j \in below : \A k \in below : j <= k][f]
        ELSE NaN

CleanedSeries(series) ==
    SelectSeq([i \in 1..Len(series) |->
                  [f \in DOMAIN series[i] |->
                      IF f \in PriceColumns THEN Cleaned(series, f, i)
                      ELSE series[i][f]]],
              LAMBDA b : \A f \in PriceColumns : IsNum(b[f]))

\* C19: the cleanup of High, Low, Close and Volume treats infinite values as
\* missing and fills each missing value with the nearest earlier valid value
\* of the column, else the nearest later one, else the column mean; a row is
\* dropped only if it is still invalid after the three fills.
C19_CleanupPriority ==
    (Called("create_features") /\ call.out.kind = "ok") =>
        call.out.h = CleanedSeries(call.series)

\* the windowed examples train produces on call.df: none before the scaled
\* table exists
Produced ==
    /\ CleanRows(call.df) >= MinCleanRows
    /\ ~call.df.degenerate

Windows == IF CleanRows(call.df) > call.L THEN CleanRows(call.df) - call.L ELSE 0

\* the windowed examples the cleaned table gives for the window length
TableWindows ==
    IF CleanRows(call.df) > call.L THEN CleanRows(call.df) - call.L ELSE 0

\* C20 as stated: for every window length and every cleaned feature table,
\* train raises the insufficient-data error when the table gives fewer than
\* 10 windowed examples, without building or fitting a model, and passes the
\* data-sufficiency checks when it gives 10 or more (of a table that scales,
\* only the constant-target check can still fail).
C20_TenWindows ==
    (Called("construct_train") /\ ~call.df.degenerate) =>
        /\ TableWindows < 10 =>
                /\ call.exc = "ValueError"
                /\ call.after.model = NoModel
        /\ TableWindows >= 10 =>
                /\ call.exc # "" <=> call.df.constClose
                /\ call.exc = "" => call.after.model.weights = 1

\* C20 amended: for every window length, train raises the insufficient-data
\* error, without building or fitting a model, when the cleaned table has
\* fewer than 50 rows (whatever number of windows it would give) or gives
\* fewer than 10 windowed examples, and passes the data-sufficiency checks
\* when it has 50 rows or more and gives 10 windowed examples or more.
C20_MinimumWindows ==
    Called("construct_train") =>
        /\ (~Produced \/ Windows < 10) =>
                /\ call.exc = "ValueError"
                /\ call.after.model = NoModel
        /\ (Produced /\ Windows >= 10) =>
                /\ call.exc # "" <=> call.df.constClose
                /\ call.exc = "" => call.after.model.weights = 1

\* window length 45 on 54 rows: 9 windowed examples
C20_Witness ==
    /\ Called("construct_train")
    /\ call.L = 45
    /\ Produced
    /\ Windows = MinSequences - 1
    /\ call.exc = "ValueError"
    /\ call.after.model = NoModel

\* a step that is a whole call of one of the callers of train
CallerStep ==
    /\ call.op = "none"
    /\ call'.op \in {"analyze", "update_model", "train_stock_model"}

\* the step called train
RanTrain == runs' = runs + 1

\* C21: a caller of train (the analysis request of the web application, the
\* auto-update and the pretrain script) whose training data has a close
\* price that never changes gets the error from train before a model is
\* built or fitted: the predictor it trained holds the model it held before
\* (none, for a script), the call fails, and the model directory is left as
\* it was, no artifact created or replaced.
C21_ConstantTarget ==
    [][(CallerStep /\ RanTrain /\ call'.data.df.constClose) =>
            /\ dir' = dir
            /\ call'.op = "analyze" =>
                    /\ call'.trace = "train"
                    /\ call'.status = 500
                    /\ predictor'.model = predictor.model
            /\ call'.op # "analyze" =>
                    /\ ~call'.ok
                    /\ call'.after.model = NoModel]_vars

\* an analysis request trained on a constant close price and failed
C21_Witness ==
    /\ Called("analyze")
    /\ call.data.df.constClose
    /\ call.trace = "train"
    /\ call.status = 500
    /\ ~dir[call.symbol].model.exists

\* the request called predict_multi_horizon
PredictedStep == call'.trace \in {"loaded", "trained", "predict", "io"}

OwnRun(model, run) ==
    /\ model.arch = run
    /\ model.init = 0
    /\ model.weights = run

\* C22: every training run gives a model made by that run alone: after a
\* train call that returned, on a predictor that held a model or not, the
\* predictor's model was built by this run and fitted from newly
\* initialised weights, and the artifact an analysis request saves for its
\* symbol after training is such a model.
C22_FreshModel ==
    /\ (Called("retrain") /\ call.exc = "") => OwnRun(predictor.model, runs)
    /\ (Called("reanalyze") /\ call.trace = "trained") =>
            /\ dir[call.symbol].model.exists
            /\ OwnRun(dir[call.symbol].model.data, runs)

\* the predictor held a model with the scaler and the feature list of the
\* same training run when train was called
Paired(self) ==
    /\ self.model # NoModel
    /\ self.scaler.fitted
    /\ self.scaler.run = self.model.weights
    /\ self.scaler.cols = self.feature_names

\* C29: a train call that raises on a predictor that holds a model paired
\* with its scaler and feature list leaves the model, the scaler statistics
\* and feature_names of the predictor as they were.
C29_FailedTrainKeepsState ==
    (Called("retrain") /\ call.exc # "" /\ Paired(call.before)) =>
        /\ predictor.model = call.before.model
        /\ predictor.scaler = call.before.scaler
        /\ predictor.feature_names = call.before.feature_names

\* the examples are those of the claim for n rows and window length L:
\* max(0, n - L) of them, example k made of the rows k .. k+L-1 in their
\* order with the Close of row k+L as target, the target row in no window,
\* consecutive examples one row apart
ContiguousWindows(made, n, L) ==
    /\ DOMAIN made = 0 .. ((IF n > L THEN n - L ELSE 0) - 1)
    /\ \A k \in DOMAIN made :
            /\ DOMAIN made[k].X = 0 .. (L - 1)
            /\ \A j \in 0 .. (L - 1) : made[k].X[j] = k + j
            /\ made[k].y = k + L
            /\ \A j \in 0 .. (L - 1) : made[k].X[j] # made[k].y
            /\ (k + 1) \in DOMAIN made =>
                    /\ \A j \in 0 .. (L - 1) : made[k + 1].X[j] = made[k].X[j] + 1
                    /\ made[k + 1].y = made[k].y + 1

\* C24 as stated: prepare_data over n cleaned rows with window length L
\* produces exactly max(0, n - L) windowed examples, example k with the rows
\* k .. k+L-1 as input and the scaled Close of row k+L as target.
C24_AllWindows ==
    Called("prepare_data") =>
        ContiguousWindows(call.made, CleanRows(call.df), call.L)

\* C24 amended: prepare_data over n cleaned rows with window length L, when
\* n is at least 50 and the scaled table is finite, builds exactly
\* max(0, n - L) windowed examples, example k with the rows k .. k+L-1 as
\* input and the scaled Close of row k+L as target, and returns them when
\* they are 10 or more; with fewer than 50 rows or a non-finite scaled table it
\* raises before any example is built.
C24_ContiguousWindows ==
    Called("prepare_data") =>
        IF CleanRows(call.df) >= MinCleanRows /\ ~call.df.degenerate
        THEN /\ ContiguousWindows(call.made, CleanRows(call.df), call.L)
             /\ call.exc = "" <=> Cardinality(DOMAIN call.made) >= MinSequences
        ELSE /\ DOMAIN call.made = {}
             /\ call.exc = "ValueError"

\* 120 rows and the window of 60: sixty examples, the last one made of the
\* rows 59 .. 118 with row 119 as target
C24_Witness ==
    /\ Called("prepare_data")
    /\ call.L = SequenceLength
    /\ call.exc = ""
    /\ Cardinality(DOMAIN call.made) = 60
    /\ call.made[59].X[0] = 59
    /\ call.made[59].X[59] = 118
    /\ call.made[59].y = 119

\* C25: a response of the trained-model path was computed with exactly 50
\* perturbed passes, none of which raised; only the passes that gave a
\* non-NaN price enter the dispersion (a single such price has dispersion
\* 0, raw confidence 95), and when no pass gave one the raw confidence is
\* 70: intraday 70, weekly 65, monthly 60, longterm 55.
C25_NoValidSample ==
    TrainedResponse =>
        /\ DOMAIN call.env.passes = 1..50
        /\ \A i \in 1..50 : call.env.passes[i] \in {"ok", "nan"}
        /\ ValidSamples(call.env) = 0 =>
                Confidences(call.out) = <<70, 65, 60, 55>>
        /\ (ValidSamples(call.env) = 1 /\ call.env.std # NaN /\ ValidPrice(call.cp)) =>
                call.out.h.intraday.confidence = 95

\* fifty passes, every one with a NaN price
C25_Witness ==
    /\ TrainedResponse
    /\ ValidPrice(call.cp)
    /\ \A i \in 1..50 : call.env.passes[i] = "nan"
    /\ Confidences(call.out) = <<70, 65, 60, 55>>

\* C30: in a response of the trained-model path the confidence does not
\* rise with the horizon, intraday >= weekly >= monthly >= longterm,
\* whatever the raw confidence is: each value from 60 to 95 and the default
\* 70.
C30_NonIncreasing ==
    TrainedResponse =>
        LET c == Confidences(call.out)
        IN  c[1] >= c[2] /\ c[2] >= c[3] /\ c[3] >= c[4]

\* the entry of the call's key before the call, and its age at the call
StoredBefore == call.before.cache[call.key].present
AgeBefore == now - call.before.timestamps[call.key].v

\* the call executed the function and left its result, or nothing for None,
\* in both maps
Refreshed ==
    /\ call.executed
    /\ IF call.value.none
       THEN /\ ~cache.cache[call.key].present
            /\ ~cache.timestamps[call.key].present
       ELSE /\ call.value.at = now
            /\ cache.cache[call.key] = Entry(call.value)
            /\ cache.timestamps[call.key] = Entry(now)

\* C26: a call of a function decorated with cached(ttl=T) returns the
\* stored result of the same arguments without executing the function when
\* the result was stored less than T seconds ago, and executes the function,
\* replacing the stored result, when it is T seconds old or older: the
\* expired entry is not returned and is taken out of both maps.
C26_ServesWithinTtl ==
    (Called("cached") /\ StoredBefore) =>
        /\ AgeBefore < decorator_ttl =>
                /\ ~call.executed
                /\ call.value = call.before.cache[call.key].v
                /\ cache = call.before
        /\ AgeBefore >= decorator_ttl => Refreshed

\* the cache apart from the entry of one key
Others(c, key) ==
    [cache |-> [k \in Keys \ {key} |-> c.cache[k]],
     timestamps |-> [k \in Keys \ {key} |-> c.timestamps[k]]]

\* keys of different arguments differ, and every stored result is a result,
\* not None, of the arguments of its key
OwnKeys ==
    /\ \A a, b \in Keys :
            cache_key("get_cached_analysis", a) = cache_key("get_cached_analysis", b)
                => a = b
    /\ \A k \in Keys :
            cache.cache[k].present =>
                /\ ~cache.cache[k].v.none
                /\ cache.cache[k].v.symbol = k[1]
                /\ cache.cache[k].v.exchange = k[2]
                /\ cache.timestamps[k].present

\* C27 as stated: a cached call whose function returns None stores nothing
\* and leaves the cache as it was before the call; a result that is not None
\* is stored under the key of the arguments, and different arguments never
\* share a key.
C27_NoneUnchanged ==
    /\ OwnKeys
    /\ (Called("cached") /\ call.executed) =>
            /\ call.value.none => cache = call.before
            /\ ~call.value.none =>
                    /\ cache.cache[call.key] = Entry(call.value)
                    /\ Others(cache, call.key) = Others(call.before, call.key)

\* C27 amended: a cached call whose function returns None stores nothing:
\* after it the cache has no entry for the key, so that the next call with
\* the same arguments executes the function again, and the entries of the
\* other keys are as before; the cache as a whole is as before the call
\* unless it held an expired entry of the key, which the lookup removed.  A
\* result that is not None is stored under the key of the arguments, and
\* different arguments never share a key.
C27_NoneNotStored ==
    /\ OwnKeys
    /\ (Called("cached") /\ call.executed) =>
            /\ Others(cache, call.key) = Others(call.before, call.key)
            /\ call.value.none =>
                    /\ ~cache.cache[call.key].present
                    /\ ~cache.timestamps[call.key].present
                    /\ cached(decorator_ttl, cache, now, call.key, NoResult).executed
                    /\ ~StoredBefore => cache = call.before
            /\ ~call.value.none =>
                    /\ cache.cache[call.key] = Entry(call.value)
                    /\ cache.timestamps[call.key] = Entry(now)

\* a call that failed while another key has a stored result
C27_Witness ==
    /\ Called("cached")
    /\ call.executed
    /\ call.value.none
    /\ ~StoredBefore
    /\ cache = call.before
    /\ \E k \in Keys \ {call.key} : cache.cache[k].present

OverallValues == {"STRONG BUY", "BUY", "HOLD", "SELL", "STRONG SELL"}

\* C28: generate_signals gives score = (2 if RSI < 30, -2 if RSI > 70,
\* otherwise 0) + (1 if MACD_diff > 0, otherwise -1) and overall = STRONG BUY
\* for score >= 3, BUY for score >= 1, STRONG SELL for score <= -3, SELL for
\* score <= -1, HOLD for score 0; each of the five overall values, HOLD
\* included, is returned for some indicator input.
C28_SignalScore ==
    /\ Called("generate_signals") =>
            LET rsi == call.rsi
                diff == call.diff
                expected ==
                    (IF rsi # NaN /\ rsi < 30000 THEN 2
                     ELSE IF rsi # NaN /\ rsi > 70000 THEN -2 ELSE 0)
                    + (IF diff # NaN /\ diff > 0 THEN 1 ELSE -1)
            IN  /\ call.out.score = expected
                /\ call.out.overall =
                        (CASE expected >= 3 -> "STRONG BUY"
                           [] expected \in {1, 2} -> "BUY"
                           [] expected = 0 -> "HOLD"
                           [] expected \in {-1, -2} -> "SELL"
                           [] expected <= -3 -> "STRONG SELL")
    /\ Called("generate_signals") =>
            \A o \in OverallValues :
                \E rsi \in RsiValues, diff \in DiffValues :
                    generate_signals(rsi, diff).overall = o

====
